---- MODULE Spec2Model ----
(***************************************************************************)
(* A model of qiskit/compiler/transpiler.py: the transpile() entry point,  *)
(* its argument resolver (_parse_transpile_args and the _parse_* helpers), *)
(* the width precheck, and the serial and parallel dispatch of the         *)
(* per-circuit compilations.                                               *)
(*                                                                         *)
(* Python values are tagged records ([kind |-> ...]) so that values of     *)
(* different Python types can be compared.  A value that is only passed    *)
(* through by the code (a basis-gate list, a BackendProperties object, an  *)
(* InstructionScheduleMap, ...) carries the place it came from in `src`,   *)
(* which makes values from different sources different values.  Python     *)
(* dicts are functions from key strings to values, Python lists are        *)
(* [kind |-> "list", items |-> <<...>>].                                    *)
(***************************************************************************)
EXTENDS Integers, Sequences, FiniteSets, TLC

VARIABLES
    args,                   \* the arguments of the transpile() call
    env,                    \* parallel.PARALLEL_DEFAULT, QISKIT_IN_PARALLEL, user config
    pc,                     \* the position of the call inside transpile()
    circuits,               \* the local `circuits` of transpile() (a sequence)
    shared_args,            \* the dict of shared arguments (aliased by _combine_args)
    unique_transpile_args,  \* the list of per-circuit argument dicts
    cmap_conf,              \* the coupling maps the width precheck went over
    warned,                 \* the warnings emitted so far (a set of warning records)
    runs,                   \* the pass_manager.run() calls made so far (a sequence)
    pass_managers,          \* the pass managers built so far, in every process
    output_circuits,        \* index -> result, filled by the serial loop or the workers
    shm,                    \* the shared-memory segment of the parallel path
    result                  \* what the call returned or raised

vars == <<args, env, pc, circuits, shared_args, unique_transpile_args, cmap_conf, warned, runs,
          pass_managers, output_circuits, shm, result>>

(***************************************************************************)
(* Bounds of the model.                                                    *)
(***************************************************************************)
MaxCircuits == 2        \* circuits in a batch
MaxQubits == 3          \* qubits of an input circuit
MaxPhys == 3            \* physical qubit indices used by layouts and coupling maps
MaxVars == 3            \* variable qubits of an AND circuit

(***************************************************************************)
(* Python values.                                                          *)
(***************************************************************************)
None == [kind |-> "None"]
PyList(s) == [kind |-> "list", items |-> s]
PyStr(s) == [kind |-> "str", v |-> s]
PyNum(n) == [kind |-> "num", v |-> n]
Opaque(k, s) == [kind |-> k, src |-> s]

IsNone(v) == v.kind = "None"
IsList(v) == v.kind = "list"
IsStr(v) == v.kind = "str"

\* Python truthiness of the values the code tests with `not x`, `x or y`, `if x`.
Truthy(v) ==
    CASE v.kind = "None" -> FALSE
      [] v.kind = "list" -> Len(v.items) > 0
      [] v.kind = "num" -> v.v # 0
      [] v.kind = "str" -> v.v # ""
      [] OTHER -> TRUE

\* `a or b`
PyOr(a, b) == IF Truthy(a) THEN a ELSE b

Max(S) == CHOOSE x \in S : \A y \in S : y <= x
Min(S) == CHOOSE x \in S : \A y \in S : x <= y
Min2(a, b) == IF a <= b THEN a ELSE b

\* The elements of a sequence, as a set.
Range(s) == {s[i] : i \in 1..Len(s)}

\* Sequences over S of a length in lo..hi.
SeqsOf(S, lo, hi) == UNION {[1..n -> S] : n \in lo..hi}

\* dict.update(): b's entries over a's.
Overlay(a, b) ==
    [k \in DOMAIN a \cup DOMAIN b |-> IF k \in DOMAIN b THEN b[k] ELSE a[k]]

\* A dict without the key k (dict.pop(k) as a statement).
Without(d, k) == [x \in DOMAIN d \ {k} |-> d[x]]

\* An exception raised by a function of the module.
Raise(exc, where) == [kind |-> "raise", exc |-> exc, at |-> where]
IsRaise(v) == v.kind = "raise"

(***************************************************************************)
(* Circuits.  A QuantumCircuit has an identity, a name and a number of     *)
(* qubits; a pulse Schedule has an identity and a name.  circuit.qubits    *)
(* is the list of the circuit's Qubit objects.  A circuit is `unsupported` *)
(* when it holds an operation on which a pass of the pass manager raises.  *)
(***************************************************************************)
QuantumCircuit(id, name, nq) ==
    [kind |-> "QuantumCircuit", id |-> id, name |-> name, num_qubits |-> nq,
     calibrations |-> {}, unsupported |-> FALSE]
UnsupportedCircuit(id, name, nq) ==
    [QuantumCircuit(id, name, nq) EXCEPT !.unsupported = TRUE]
Schedule(id, name) == [kind |-> "Schedule", id |-> id, name |-> name]
Qubit(c, i) == [kind |-> "Qubit", circ |-> c, index |-> i]
Qubits(circ) == [i \in 1..circ.num_qubits |-> Qubit(circ.id, i - 1)]

(***************************************************************************)
(* Coupling maps.  A CouplingMap holds its edge list; size() is the number *)
(* of physical qubits, which are contiguous from 0.  A raw coupling map is *)
(* a Python list of two-element lists.                                     *)
(***************************************************************************)
CouplingMap(edges) == [kind |-> "CouplingMap", edges |-> edges]

\* CouplingMap.size()
CouplingMapSize(cm) ==
    IF Len(cm.edges) = 0 THEN 0
    ELSE Max({cm.edges[i][1] : i \in 1..Len(cm.edges)}
             \cup {cm.edges[i][2] : i \in 1..Len(cm.edges)}) + 1

\* CouplingMap(couplinglist), for a Python list of [a, b] lists
CouplingMapFromList(l) ==
    CouplingMap([i \in 1..Len(l.items) |-> <<l.items[i].items[1], l.items[i].items[2]>>])

(***************************************************************************)
(* Instruction durations: a table from instruction name to the duration    *)
(* entry (named by the place it came from) and the sample time dt.         *)
(***************************************************************************)
EmptyTable == [n \in {} |-> "none"]
InstructionDurations(tab, dt) == [kind |-> "InstructionDurations", tab |-> tab, dt |-> dt]

\* the table of a Python list of (name, qubits, duration[, unit]) tuples
TableOfList(l) ==
    [n \in {l.items[i].name : i \in 1..Len(l.items)} |->
        LET last == Max({i \in 1..Len(l.items) : l.items[i].name = n})
        IN  l.items[last].src]

\* InstructionDurations.update(inst_durations, dt)
DurationsUpdate(self, inst_durations, dt) ==
    LET newdt == IF Truthy(dt) THEN dt ELSE self.dt
        tab == CASE inst_durations.kind = "None" -> self.tab
                 [] inst_durations.kind = "InstructionDurations" ->
                        Overlay(self.tab, inst_durations.tab)
                 [] OTHER -> Overlay(self.tab, TableOfList(inst_durations))
    IN  InstructionDurations(tab, newdt)

\* InstructionDurations.from_backend(backend), for a version <= 1 backend or None:
\* None has no properties() and raises AttributeError.
DurationsFromBackend(backend) ==
    IF IsNone(backend) THEN Raise("AttributeError", "from_backend")
    ELSE backend.instruction_durations

(***************************************************************************)
(* Timing constraints.                                                     *)
(***************************************************************************)
TimingKeys == {"granularity", "min_length", "pulse_alignment", "acquire_alignment"}

\* TimingConstraints built from keyword arguments: every constraint not given defaults to 1
TimingConstraints(kwargs) ==
    [kind |-> "TimingConstraints",
     c |-> [k \in TimingKeys |-> IF k \in DOMAIN kwargs THEN kwargs[k] ELSE 1]]

PyDict(d) == [kind |-> "dict", d |-> d]
EmptyDict == [k \in {} |-> 0]

(***************************************************************************)
(* Layouts.  A Layout is its physical-to-virtual map.  A layout dict is    *)
(* the sequence of its items in insertion order, each item a (virtual,     *)
(* physical) pair whichever of the two is its key.                         *)
(***************************************************************************)
Layout(p2v) == [kind |-> "Layout", p2v |-> p2v]
LayoutDict(pairs) == [kind |-> "dict", pairs |-> pairs]

\* Layout.from_dict: items are entered in order; an item evicts the earlier
\* entries of its physical qubit and of its virtual qubit
RECURSIVE LayoutFromPairs(_, _)
LayoutFromPairs(pairs, p2v) ==
    IF Len(pairs) = 0 THEN p2v
    ELSE LET it == Head(pairs)
             kept == {p \in DOMAIN p2v : p # it.phys /\ p2v[p] # it.virt}
         IN  LayoutFromPairs(Tail(pairs),
                 [p \in kept \cup {it.phys} |->
                     IF p = it.phys THEN it.virt ELSE p2v[p]])

EmptyP2V == [p \in {} |-> None]

(***************************************************************************)
(* The argument resolvers of transpiler.py.  Each returns the resolved     *)
(* value, or Raise(...) when the function raises.                          *)
(***************************************************************************)
\* getattr(backend, "version", 0): None has no version
BackendVersion(backend) == IF IsNone(backend) THEN 0 ELSE backend.version

_parse_basis_gates(basis_gates, backend) ==
    IF IsNone(basis_gates) THEN
        IF BackendVersion(backend) <= 1 THEN
            IF ~IsNone(backend) THEN backend.basis_gates ELSE basis_gates
        ELSE backend.operation_names
    ELSE basis_gates

_parse_inst_map(inst_map, backend) ==
    IF IsNone(inst_map) THEN
        IF BackendVersion(backend) <= 1 THEN
            IF ~IsNone(backend) THEN backend.instruction_schedule_map ELSE inst_map
        ELSE backend.target.inst_map
    ELSE inst_map

\* all(isinstance(i, list) and len(i) == 2 for i in coupling_map)
IsEdgeList(coupling_map) ==
    \A i \in 1..Len(coupling_map.items) :
        /\ IsList(coupling_map.items[i])
        /\ Len(coupling_map.items[i].items) = 2

_parse_coupling_map(coupling_map, backend) ==
    LET cm == IF IsNone(coupling_map) THEN
                  IF BackendVersion(backend) <= 1 THEN
                      IF ~IsNone(backend) /\ Truthy(backend.coupling_map)
                      THEN CouplingMapFromList(backend.coupling_map)
                      ELSE coupling_map
                  ELSE backend.coupling_map
              ELSE coupling_map
    IN  IF IsNone(cm) \/ cm.kind = "CouplingMap" THEN cm
        ELSE IF IsList(cm) /\ IsEdgeList(cm) THEN CouplingMapFromList(cm)
        ELSE PyList([i \in 1..Len(cm.items) |->
                        IF IsList(cm.items[i]) THEN CouplingMapFromList(cm.items[i])
                        ELSE cm.items[i]])

_parse_backend_properties(backend_properties, backend) ==
    IF IsNone(backend_properties) THEN
        IF BackendVersion(backend) <= 1 THEN
            IF ~IsNone(backend) THEN backend.properties ELSE backend_properties
        ELSE backend.target.properties
    ELSE backend_properties

_parse_backend_num_qubits(backend, num_circuits) ==
    IF IsNone(backend) THEN PyList([i \in 1..num_circuits |-> None])
    ELSE PyList([i \in 1..num_circuits |-> PyNum(backend.num_qubits)])

\* a list of physical indices read as the qubits in index order, whatever its
\* entries
layout_in_index_order(initial_layout, circuit) ==
    IF initial_layout.kind # "list" THEN initial_layout
    ELSE Layout([p \in 0..(Min2(Len(initial_layout.items), circuit.num_qubits) - 1) |->
                    Qubits(circuit)[p + 1]])

\* _layout_from_raw(initial_layout, circuit), the local function of
\* _parse_initial_layout
_layout_from_raw(initial_layout, circuit) ==
    IF IsNone(initial_layout) \/ initial_layout.kind = "Layout" THEN initial_layout
    ELSE IF initial_layout.kind = "dict" THEN
        Layout(LayoutFromPairs(initial_layout.pairs, EmptyP2V))
    ELSE
        LET specifier == initial_layout.items
            n == Len(specifier)
        IN  IF \A i \in 1..n : IsNone(specifier[i]) \/ specifier[i].kind = "Qubit" THEN
                LET present == {i \in 1..n : ~IsNone(specifier[i])}
                    mapping == SelectSeq([i \in 1..n |-> [virt |-> specifier[i],
                                                          phys |-> i - 1]],
                                         LAMBDA it : ~IsNone(it.virt))
                IN  IF circuit.kind # "QuantumCircuit"
                    THEN Raise("AttributeError", "_parse_initial_layout")
                    ELSE IF Cardinality(present) # circuit.num_qubits
                    THEN Raise("TranspilerError", "_parse_initial_layout")
                    ELSE Layout(LayoutFromPairs(mapping, EmptyP2V))
            ELSE
                IF circuit.kind # "QuantumCircuit"
                THEN Raise("AttributeError", "_parse_initial_layout")
                ELSE IF n # circuit.num_qubits
                THEN Raise("TranspilerError", "_parse_initial_layout")
                ELSE IF n # Cardinality(Range(specifier))
                THEN Raise("TranspilerError", "_parse_initial_layout")
                ELSE IF \E i \in 1..n : specifier[i].kind # "num"
                THEN Raise("TypeError", "_parse_initial_layout")
                ELSE Layout([p \in {specifier[i].v : i \in 1..n} |->
                                Qubits(circuit)[CHOOSE i \in 1..n : specifier[i].v = p]])

\* The first exception of a sequence of results, or the list of the results.
FirstRaiseOrList(rs) ==
    IF \E i \in 1..Len(rs) : IsRaise(rs[i])
    THEN rs[CHOOSE i \in 1..Len(rs) : IsRaise(rs[i]) /\ \A j \in 1..(i - 1) : ~IsRaise(rs[j])]
    ELSE PyList(rs)

_parse_initial_layout(initial_layout, circs) ==
    IF IsList(initial_layout)
       /\ \E i \in 1..Len(initial_layout.items) :
              initial_layout.items[i].kind \in {"list", "dict"}
    THEN FirstRaiseOrList(
            [i \in 1..Min2(Len(initial_layout.items), Len(circs)) |->
                IF initial_layout.items[i].kind \in {"list", "dict"}
                THEN _layout_from_raw(initial_layout.items[i], circs[i])
                ELSE initial_layout.items[i]])
    ELSE FirstRaiseOrList([i \in 1..Len(circs) |-> _layout_from_raw(initial_layout, circs[i])])

\* Floats are counted in halves: Float(2) is 1.0, Float(1) is 0.5, Float(-1) is -0.5.
Float(halves) == PyNum(halves)
FloatZero == Float(0)
FloatOne == Float(2)

\* durations that keep the backend's as the base under explicit ones
durations_over_backend(backend, inst_durations, dt, circs) ==
    LET from_backend == DurationsFromBackend(backend)
        backend_durations ==
            IF BackendVersion(backend) <= 1 THEN
                IF IsRaise(from_backend) THEN InstructionDurations(EmptyTable, None)
                ELSE from_backend
            ELSE backend.instruction_durations
        one(circ) ==
            LET d0 == InstructionDurations(EmptyTable, None)
                d1 == DurationsUpdate(d0, backend_durations, PyOr(dt, backend_durations.dt))
                cal_durations ==
                    InstructionDurations([g \in circ.calibrations |-> "calibration"], None)
                d2 == IF circ.calibrations # {}
                      THEN DurationsUpdate(d1, cal_durations, d1.dt)
                      ELSE d1
                own_dt == IF inst_durations.kind = "InstructionDurations"
                          THEN inst_durations.dt ELSE None
            IN  IF Truthy(inst_durations)
                THEN DurationsUpdate(d2, inst_durations, PyOr(dt, own_dt))
                ELSE d2
    IN  FirstRaiseOrList([i \in 1..Len(circs) |->
            IF circs[i].kind # "QuantumCircuit"
            THEN Raise("AttributeError", "_parse_instruction_durations")
            ELSE one(circs[i])])

_parse_instruction_durations(backend, inst_durations, dt, circs) ==
    LET from_backend == DurationsFromBackend(backend)
        backend_durations ==
            IF BackendVersion(backend) <= 1 THEN
                IF IsRaise(from_backend) THEN InstructionDurations(EmptyTable, None)
                ELSE from_backend
            ELSE backend.instruction_durations
        one(circ) ==
            LET d0 == InstructionDurations(EmptyTable, None)
                d1 == IF ~Truthy(inst_durations)
                      THEN DurationsUpdate(d0, backend_durations, PyOr(dt, backend_durations.dt))
                      ELSE d0
                cal_durations ==
                    InstructionDurations([g \in circ.calibrations |-> "calibration"], None)
                d2 == IF circ.calibrations # {}
                      THEN DurationsUpdate(d1, cal_durations, d1.dt)
                      ELSE d1
                own_dt == IF inst_durations.kind = "InstructionDurations"
                          THEN inst_durations.dt ELSE None
            IN  IF Truthy(inst_durations)
                THEN DurationsUpdate(d2, inst_durations, PyOr(dt, own_dt))
                ELSE d2
    IN  FirstRaiseOrList([i \in 1..Len(circs) |->
            IF circs[i].kind # "QuantumCircuit"
            THEN Raise("AttributeError", "_parse_instruction_durations")
            ELSE one(circs[i])])

\* a check of the scalar only: a list is taken as it is
approximation_degree_scalar_check(approximation_degree) ==
    IF approximation_degree.kind = "num"
       /\ (approximation_degree.v < FloatZero.v \/ approximation_degree.v > FloatOne.v)
    THEN Raise("TranspilerError", "_parse_approximation_degree")
    ELSE approximation_degree

_parse_approximation_degree(approximation_degree) ==
    IF IsNone(approximation_degree) THEN None
    ELSE IF IsList(approximation_degree) THEN
        IF ~(\A i \in 1..Len(approximation_degree.items) :
                Truthy(approximation_degree.items[i]) =>
                    /\ FloatZero.v <= approximation_degree.items[i].v
                    /\ approximation_degree.items[i].v <= FloatOne.v)
        THEN Raise("TranspilerError", "_parse_approximation_degree")
        ELSE approximation_degree
    ELSE IF approximation_degree.v < FloatZero.v \/ approximation_degree.v > FloatOne.v
    THEN Raise("TranspilerError", "_parse_approximation_degree")
    ELSE approximation_degree

\* a resolution that never looks at the backend's target
target_argument_only(backend, target) == target

\* getattr(backend, "target", None): only a version 2 backend has a target
_parse_target(backend, target) ==
    LET backend_target == IF BackendVersion(backend) >= 2 THEN backend.target ELSE None
    IN  IF IsNone(target) THEN backend_target ELSE target

_parse_callback(callback, num_circuits) ==
    IF ~IsList(callback) THEN PyList([i \in 1..num_circuits |-> callback])
    ELSE callback

\* a check that takes any list of strings, whatever its length
output_name_any_length(output_name, circs) ==
    IF IsNone(output_name) THEN PyList([i \in 1..Len(circs) |-> PyStr(circs[i].name)])
    ELSE IF IsStr(output_name) THEN
        IF Len(circs) = 1 THEN PyList(<<output_name>>)
        ELSE Raise("TranspilerError", "_parse_output_name")
    ELSE IF IsList(output_name)
            /\ \A i \in 1..Len(output_name.items) : IsStr(output_name.items[i])
    THEN output_name
    ELSE Raise("TranspilerError", "_parse_output_name")

_parse_output_name(output_name, circs) ==
    IF IsNone(output_name) THEN PyList([i \in 1..Len(circs) |-> PyStr(circs[i].name)])
    ELSE IF IsStr(output_name) THEN
        IF Len(circs) = 1 THEN PyList(<<output_name>>)
        ELSE Raise("TranspilerError", "_parse_output_name")
    ELSE IF IsList(output_name) THEN
        IF /\ Len(circs) = Len(output_name.items)
           /\ \A i \in 1..Len(output_name.items) : IsStr(output_name.items[i])
        THEN output_name
        ELSE Raise("TranspilerError", "_parse_output_name")
    ELSE Raise("TranspilerError", "_parse_output_name")

_parse_timing_constraints(backend, timing_constraints, num_circuits) ==
    LET resolved ==
            IF timing_constraints.kind = "TimingConstraints" THEN timing_constraints
            ELSE IF IsNone(backend) /\ IsNone(timing_constraints)
            THEN TimingConstraints(EmptyDict)
            ELSE IF BackendVersion(backend) <= 1 THEN
                LET tc == IF IsNone(timing_constraints)
                          THEN backend.timing_constraints
                          ELSE timing_constraints
                IN  IF tc.kind # "dict" THEN Raise("TypeError", "_parse_timing_constraints")
                    ELSE TimingConstraints(tc.d)
            ELSE backend.target.timing_constraints
    IN  IF IsRaise(resolved) THEN resolved
        ELSE PyList([i \in 1..num_circuits |-> resolved])

\* _zip_dict(mapping): as zip, the shortest of the lists decides the length
_zip_dict(mapping) ==
    LET n == CHOOSE m \in {Len(mapping[k].items) : k \in DOMAIN mapping} :
                 \A k \in DOMAIN mapping : m <= Len(mapping[k].items)
    IN  [i \in 1..n |-> [k \in DOMAIN mapping |-> mapping[k].items[i]]]

(***************************************************************************)
(* _parse_transpile_args: the resolved arguments of a call `a` on the      *)
(* circuits `circs`, at optimization level `optimization_level`.  The      *)
(* result holds the exception raised (or None), the warnings emitted, the  *)
(* list of per-circuit argument dicts and the dict of shared arguments.    *)
(***************************************************************************)
Warning(category, about) == [category |-> category, about |-> about]

Absent == [kind |-> "absent"]

\* Target.update_from_instruction_schedule_map(inst_map), on a deep copy
TargetUpdated(target, inst_map) == [target EXCEPT !.calibrated_from = inst_map.src]

\* the deprecated use of a list of per-circuit values for argument `key`
BroadcastDeprecated(key, a) ==
    \/ key \notin {"instruction_durations", "timing_constraints", "initial_layout"}
    \/ /\ key = "initial_layout"
       /\ Truthy(a.initial_layout)
       /\ IsList(a.initial_layout)
       /\ a.initial_layout.items[1].kind \in {"Layout", "dict", "list"}
    \/ /\ key = "instruction_durations"
       /\ Truthy(a.instruction_durations)
       /\ IsList(a.instruction_durations)
       /\ a.instruction_durations.items[1].kind \in {"list", "InstructionDurations"}
    \/ /\ key = "timing_constraints"
       /\ Truthy(a.timing_constraints)
       /\ IsList(a.timing_constraints)

\* lines 534-555: a target overrides the backend, an explicit argument overrides
\* the target; without a target, an explicit basis_gates or coupling_map keeps the
\* backend's target out
TargetOverrides(a) ==
    IF ~IsNone(a.target) THEN
        [coupling_map |-> IF IsNone(a.coupling_map)
                          THEN a.target.coupling_map ELSE a.coupling_map,
         basis_gates |-> IF IsNone(a.basis_gates)
                         THEN a.target.operation_names ELSE a.basis_gates,
         instruction_durations |-> IF IsNone(a.instruction_durations)
                                   THEN a.target.durations ELSE a.instruction_durations,
         inst_map |-> IF IsNone(a.inst_map) THEN a.target.inst_map ELSE a.inst_map,
         dt |-> IF IsNone(a.dt) THEN a.target.dt ELSE a.dt,
         timing_constraints |-> IF IsNone(a.timing_constraints)
                                THEN a.target.timing_constraints ELSE a.timing_constraints,
         backend_properties |-> IF IsNone(a.backend_properties)
                                THEN a.target.properties ELSE a.backend_properties,
         target |-> a.target]
    ELSE
        [coupling_map |-> a.coupling_map,
         basis_gates |-> a.basis_gates,
         instruction_durations |-> a.instruction_durations,
         inst_map |-> a.inst_map,
         dt |-> a.dt,
         timing_constraints |-> a.timing_constraints,
         backend_properties |-> a.backend_properties,
         target |-> IF IsNone(a.basis_gates) /\ IsNone(a.coupling_map)
                    THEN _parse_target(a.backend, a.target) ELSE a.target]

\* lines 557-567: the arguments `o` (after the target's overrides), resolved
ParsedArgs(circs, a, o) ==
    [basis_gates |-> _parse_basis_gates(o.basis_gates, a.backend),
     initial_layout |-> _parse_initial_layout(a.initial_layout, circs),
     inst_map |-> _parse_inst_map(o.inst_map, a.backend),
     coupling_map |-> _parse_coupling_map(o.coupling_map, a.backend),
     backend_properties |-> _parse_backend_properties(o.backend_properties, a.backend),
     backend_num_qubits |-> _parse_backend_num_qubits(a.backend, Len(circs)),
     approximation_degree |-> _parse_approximation_degree(a.approximation_degree),
     output_name |-> _parse_output_name(a.output_name, circs),
     callback |-> _parse_callback(a.callback, Len(circs)),
     durations |-> _parse_instruction_durations(a.backend, o.instruction_durations,
                                                o.dt, circs),
     timing_constraints |-> _parse_timing_constraints(a.backend, o.timing_constraints,
                                                      Len(circs)),
     target |-> o.target]

\* lines 558-576: the first exception of the statements that can raise, or None
ParseRaised(a, p) ==
    LET steps == <<p.initial_layout, p.approximation_degree, p.output_name, p.durations,
                   p.timing_constraints,
                   IF IsList(p.inst_map)
                   THEN Raise("AttributeError", "_parse_transpile_args") ELSE None,
                   IF /\ Truthy(a.scheduling_method)
                      /\ ~IsRaise(p.durations)
                      /\ \E i \in 1..Len(p.durations.items) : IsNone(p.durations.items[i])
                   THEN Raise("TranspilerError", "_parse_transpile_args") ELSE None>>
        raising == {i \in 1..Len(steps) : IsRaise(steps[i])}
    IN  IF raising = {} THEN None ELSE steps[Min(raising)]

\* lines 568-571: custom gates of the instruction schedule map go into a copy of
\* the target
ParsedTarget(p) ==
    IF ~IsNone(p.inst_map) /\ p.inst_map.custom /\ ~IsNone(p.target)
    THEN TargetUpdated(p.target, p.inst_map) ELSE p.target

\* a stage method that prefers the backend's default plugin to the method given
stage_method_preferring_backend(a, method, plugin) ==
    IF /\ ~a.ignore_backend_supplied_default_methods
       /\ ~IsNone(a.backend)
       /\ plugin # Absent
    THEN plugin ELSE method

\* lines 589-594: the backend's default plugin for a stage, unless ignored
StageMethod(a, method, plugin) ==
    IF /\ ~a.ignore_backend_supplied_default_methods
       /\ IsNone(method)
       /\ ~IsNone(a.backend)
       /\ plugin # Absent
    THEN plugin ELSE method

BackendPlugin(a, stage) ==
    IF IsNone(a.backend) THEN Absent
    ELSE IF stage = "scheduling" THEN a.backend.scheduling_stage_plugin
    ELSE a.backend.translation_stage_plugin

\* the dict of the loop with the seed left out
arg_values_without_seed(a, p) ==
    [k \in {"inst_map", "coupling_map", "backend_properties", "approximation_degree",
            "initial_layout", "layout_method", "routing_method", "translation_method",
            "scheduling_method", "instruction_durations", "timing_constraints",
            "seed_transpiler", "unitary_synthesis_method",
            "unitary_synthesis_plugin_config", "target", "hls_config"} |->
        CASE k = "inst_map" -> p.inst_map
          [] k = "coupling_map" -> p.coupling_map
          [] k = "backend_properties" -> p.backend_properties
          [] k = "approximation_degree" -> p.approximation_degree
          [] k = "initial_layout" -> p.initial_layout
          [] k = "layout_method" -> a.layout_method
          [] k = "routing_method" -> a.routing_method
          [] k = "translation_method" ->
                 StageMethod(a, a.translation_method, BackendPlugin(a, "translation"))
          [] k = "scheduling_method" ->
                 StageMethod(a, a.scheduling_method, BackendPlugin(a, "scheduling"))
          [] k = "instruction_durations" -> p.durations
          [] k = "timing_constraints" -> p.timing_constraints
          [] k = "seed_transpiler" -> None
          [] k = "unitary_synthesis_method" -> a.unitary_synthesis_method
          [] k = "unitary_synthesis_plugin_config" -> a.unitary_synthesis_plugin_config
          [] k = "target" -> ParsedTarget(p)
          [] k = "hls_config" -> a.hls_config]

\* lines 596-613: the dict the loop goes over
ArgValues(a, p) ==
    [k \in {"inst_map", "coupling_map", "backend_properties", "approximation_degree",
            "initial_layout", "layout_method", "routing_method", "translation_method",
            "scheduling_method", "instruction_durations", "timing_constraints",
            "seed_transpiler", "unitary_synthesis_method",
            "unitary_synthesis_plugin_config", "target", "hls_config"} |->
        CASE k = "inst_map" -> p.inst_map
          [] k = "coupling_map" -> p.coupling_map
          [] k = "backend_properties" -> p.backend_properties
          [] k = "approximation_degree" -> p.approximation_degree
          [] k = "initial_layout" -> p.initial_layout
          [] k = "layout_method" -> a.layout_method
          [] k = "routing_method" -> a.routing_method
          [] k = "translation_method" ->
                 StageMethod(a, a.translation_method, BackendPlugin(a, "translation"))
          [] k = "scheduling_method" ->
                 StageMethod(a, a.scheduling_method, BackendPlugin(a, "scheduling"))
          [] k = "instruction_durations" -> p.durations
          [] k = "timing_constraints" -> p.timing_constraints
          [] k = "seed_transpiler" -> a.seed_transpiler
          [] k = "unitary_synthesis_method" -> a.unitary_synthesis_method
          [] k = "unitary_synthesis_plugin_config" -> a.unitary_synthesis_plugin_config
          [] k = "target" -> ParsedTarget(p)
          [] k = "hls_config" -> a.hls_config]

\* lines 577-581
UniqueBase(p) ==
    [k \in {"callback", "output_name", "backend_num_qubits"} |->
        CASE k = "callback" -> p.callback
          [] k = "output_name" -> p.output_name
          [] k = "backend_num_qubits" -> p.backend_num_qubits]

\* lines 582-587
SharedBase(a, p, optimization_level) ==
    [k \in {"optimization_level", "basis_gates", "init_method", "optimization_method"} |->
        CASE k = "optimization_level" -> optimization_level
          [] k = "basis_gates" -> p.basis_gates
          [] k = "init_method" -> a.init_method
          [] k = "optimization_method" -> a.optimization_method]

\* per-circuit dicts that all carry the first circuit's output name
first_output_name_for_all(zipped) ==
    [i \in 1..Len(zipped) |->
        [k \in {"output_name", "callback", "backend_num_qubits", "pass_manager_config"} |->
            IF k = "pass_manager_config"
            THEN PyDict(Without(Without(Without(zipped[i], "output_name"), "callback"),
                                "backend_num_qubits"))
            ELSE IF k = "output_name" THEN zipped[1][k]
            ELSE zipped[i][k]]]

\* lines 654-661: the per-circuit dicts, the pass manager's part of each under
\* "pass_manager_config"
ListTranspileArgs(zipped) ==
    [i \in 1..Len(zipped) |->
        [k \in {"output_name", "callback", "backend_num_qubits", "pass_manager_config"} |->
            IF k = "pass_manager_config"
            THEN PyDict(Without(Without(Without(zipped[i], "output_name"), "callback"),
                                "backend_num_qubits"))
            ELSE zipped[i][k]]]

\* lines 614-652: a value that is a list goes to the per-circuit arguments (with a
\* DeprecationWarning where the list is a broadcast), any other to the shared ones
SplitArgs(a, unique0, shared0, values, listed) ==
    [raised |-> None,
     warns |-> {Warning("DeprecationWarning", k) :
                   k \in {x \in listed : BroadcastDeprecated(x, a)}},
     unique |-> ListTranspileArgs(
                    _zip_dict(Overlay(unique0, [k \in listed |-> values[k]]))),
     shared |-> Overlay(shared0, [k \in DOMAIN values \ listed |-> values[k]])]

\* the warning of line 527
LayoutMethodWarning(a) ==
    IF ~IsNone(a.initial_layout) /\ ~IsNone(a.layout_method)
    THEN {Warning("UserWarning", "layout_method")} ELSE {}

ResolveParsed(a, p, raised, values, optimization_level) ==
    IF IsRaise(raised)
    THEN [raised |-> raised, warns |-> LayoutMethodWarning(a), unique |-> <<>>,
          shared |-> [k \in {} |-> None]]
    ELSE [SplitArgs(a, UniqueBase(p), SharedBase(a, p, optimization_level), values,
                    {k \in DOMAIN values : IsList(values[k])})
             EXCEPT !.warns = @ \cup LayoutMethodWarning(a)]

ResolveFrom(a, p, optimization_level) ==
    ResolveParsed(a, p, ParseRaised(a, p), ArgValues(a, p), optimization_level)

_parse_transpile_args(circs, a, optimization_level) ==
    ResolveFrom(a, ParsedArgs(circs, a, TargetOverrides(a)), optimization_level)

(***************************************************************************)
(* The pass manager.  A PassManagerConfig holds the keyword                 *)
(* arguments it was built from; a preset pass manager is known by its      *)
(* level and its configuration; run() returns the compiled circuit, which  *)
(* is known by the circuit it was compiled from, the pass manager that     *)
(* compiled it and the name it was given.                                  *)
(***************************************************************************)
PassManagerConfig(kwargs) == [kind |-> "PassManagerConfig", kwargs |-> kwargs]

PassManager(level, pass_manager_config) ==
    [kind |-> "PassManager", level |-> level, config |-> pass_manager_config]

PassManagerRun(pass_manager, circuit, callback, output_name) ==
    IF circuit.unsupported THEN Raise("TranspilerError", "PassManager.run")
    ELSE [kind |-> "QuantumCircuit", compiled_from |-> circuit.id,
          by |-> pass_manager, callback |-> callback, name |-> output_name]

\* an update in which the values already in the shared dict win
combine_args_keeping_shared(shared_transpiler_args, unique_config) ==
    LET level == shared_transpiler_args["optimization_level"]
        popped == Without(shared_transpiler_args, "optimization_level")
        updated == Overlay(unique_config["pass_manager_config"].d, popped)
        pass_manager_config == PassManagerConfig(updated)
        restored == Overlay(updated, [k \in {"optimization_level"} |-> level])
        transpile_config ==
            Overlay(Without(unique_config, "pass_manager_config"),
                    [k \in {"pass_manager_config"} |-> pass_manager_config])
    IN  [raised |-> IF level.kind = "num" /\ level.v \in {0, 1, 2, 3} THEN None
                    ELSE Raise("TranspilerError", "_combine_args"),
         shared |-> restored,
         transpile_config |-> transpile_config,
         pass_manager |-> PassManager(level, pass_manager_config)]

\* _combine_args(shared_transpiler_args, unique_config): the exception raised (or
\* None), both dicts as the call leaves them, and the pass manager it builds.
_combine_args(shared_transpiler_args, unique_config) ==
    LET level == shared_transpiler_args["optimization_level"]
        popped == Without(shared_transpiler_args, "optimization_level")
        updated == Overlay(popped, unique_config["pass_manager_config"].d)
        pass_manager_config == PassManagerConfig(updated)
        restored == Overlay(updated, [k \in {"optimization_level"} |-> level])
        transpile_config ==
            Overlay(Without(unique_config, "pass_manager_config"),
                    [k \in {"pass_manager_config"} |-> pass_manager_config])
    IN  [raised |-> IF level.kind = "num" /\ level.v \in {0, 1, 2, 3} THEN None
                    ELSE Raise("TranspilerError", "_combine_args"),
         shared |-> restored,
         transpile_config |-> transpile_config,
         pass_manager |-> PassManager(level, pass_manager_config)]

\* a precheck that looks at the first circuit only
check_first_circuit_only(circs, coupling_maps_list, backend) ==
    IF /\ Len(circs) > 0
       /\ Len(coupling_maps_list) > 0
       /\ \/ /\ coupling_maps_list[1].kind = "CouplingMap"
             /\ circs[1].num_qubits > CouplingMapSize(coupling_maps_list[1])
          \/ /\ coupling_maps_list[1].kind # "CouplingMap"
             /\ ~IsNone(backend)
             /\ ~(BackendVersion(backend) <= 1 /\ backend.simulator)
             /\ circs[1].num_qubits > backend.num_qubits
    THEN Raise("TranspilerError", "_check_circuits_coupling_map")
    ELSE None

\* _check_circuits_coupling_map(circuits, cmap_conf, backend): the exception raised,
\* or None
_check_circuits_coupling_map(circs, coupling_maps_list, backend) ==
    LET max_qubits(parsed_coupling_map) ==
            IF parsed_coupling_map.kind = "CouplingMap"
            THEN PyNum(CouplingMapSize(parsed_coupling_map))
            ELSE IF ~IsNone(backend) THEN
                IF BackendVersion(backend) <= 1 THEN
                    IF ~backend.simulator THEN PyNum(backend.num_qubits) ELSE None
                ELSE PyNum(backend.num_qubits)
            ELSE None
        too_wide(i) ==
            /\ ~IsNone(max_qubits(coupling_maps_list[i]))
            /\ circs[i].num_qubits > max_qubits(coupling_maps_list[i]).v
    IN  IF \E i \in 1..Min2(Len(circs), Len(coupling_maps_list)) : too_wide(i)
        THEN Raise("TranspilerError", "_check_circuits_coupling_map")
        ELSE None

(***************************************************************************)
(* The inputs of a call: circuits, backends, targets and argument values.  *)
(***************************************************************************)
CircuitName(id) == <<"qc1", "qc2", "qc3", "qc4">>[id]

\* the batches of n circuits with widths in `widths`
Batches(n, widths) ==
    {[i \in 1..n |-> QuantumCircuit(i, CircuitName(i), w[i])] : w \in [1..n -> widths]}

\* a line of n physical qubits; each source orients its edges its own way
Chain(n, src) ==
    CASE src = "arg" -> [i \in 1..(n - 1) |-> <<i - 1, i>>]
      [] src = "backend" -> [i \in 1..(n - 1) |-> <<i, i - 1>>]
      [] OTHER -> [i \in 1..(n - 1) |-> <<i - 1, i>>] \o [i \in 1..(n - 1) |-> <<i, i - 1>>]

RawCouplingList(edges) == PyList([i \in 1..Len(edges) |-> PyList(edges[i])])

InstructionScheduleMap(src, custom) ==
    [kind |-> "InstructionScheduleMap", src |-> src, custom |-> custom]

\* the sample times of the three sources (in one unit)
DtOf(src) == CASE src = "arg" -> PyNum(1) [] src = "target" -> PyNum(2) [] OTHER -> PyNum(3)

\* a Target; `bare` is a target without connectivity constraints, sample time or
\* error data: build_coupling_map() gives None, dt is None and
\* target_to_backend_properties(target) is None
Target(src, n, bare) ==
    [kind |-> "Target", src |-> src,
     coupling_map |-> IF bare THEN None ELSE CouplingMap(Chain(n, "target")),
     operation_names |-> Opaque("basis_gates", src),
     durations |-> InstructionDurations([g \in {"cx"} |-> src],
                                        IF bare THEN None ELSE DtOf("target")),
     inst_map |-> InstructionScheduleMap(src, FALSE),
     dt |-> IF bare THEN None ELSE DtOf("target"),
     timing_constraints |-> TimingConstraints([k \in {"granularity"} |-> 4]),
     properties |-> IF bare THEN None ELSE Opaque("BackendProperties", src),
     calibrated_from |-> "none"]

\* a backend of the given version with n qubits; a version 1 backend gives its
\* data through configuration(), properties() and defaults(), a version 2 backend
\* through its attributes and its target
Backend(version, simulator, n, has_map) ==
    [kind |-> "Backend", version |-> version, simulator |-> simulator, num_qubits |-> n,
     coupling_map |-> IF ~has_map THEN None
                      ELSE IF version <= 1 THEN RawCouplingList(Chain(n, "backend"))
                      ELSE CouplingMap(Chain(n, "backend")),
     basis_gates |-> Opaque("basis_gates", "backend"),
     operation_names |-> Opaque("basis_gates", "backend"),
     properties |-> Opaque("BackendProperties", "backend"),
     instruction_schedule_map |-> InstructionScheduleMap("backend", FALSE),
     instruction_durations |-> InstructionDurations([g \in {"cx", "x"} |-> "backend"],
                                                    DtOf("backend")),
     timing_constraints |-> PyDict([k \in {"granularity"} |-> 8]),
     target |-> IF version <= 1 THEN None
                ELSE [Target("backend", n, ~has_map) EXCEPT
                         !.timing_constraints =
                             TimingConstraints([k \in {"granularity"} |-> 8]),
                         !.properties = Opaque("BackendProperties", "backend")],
     scheduling_stage_plugin |-> Absent,
     translation_stage_plugin |-> Absent]

\* devices with a coupling map, a one-qubit device without one, a simulator
Backends ==
    {None,
     Backend(1, FALSE, 2, TRUE), Backend(1, FALSE, 1, FALSE), Backend(1, TRUE, 2, FALSE),
     Backend(2, FALSE, 2, TRUE), Backend(2, FALSE, 1, FALSE)}

Targets == {None, Target("target", MaxPhys, FALSE), Target("target", MaxPhys, TRUE)}

Envs ==
    [PARALLEL_DEFAULT : BOOLEAN, QISKIT_IN_PARALLEL : {"FALSE", "TRUE"},
     transpile_optimization_level : {Absent}]

\* the arguments of transpile() at their defaults, for the given circuits
DefaultArgs(circs) ==
    [circuits |-> circs, backend |-> None, basis_gates |-> None, inst_map |-> None,
     coupling_map |-> None, backend_properties |-> None, initial_layout |-> None,
     layout_method |-> None, routing_method |-> None, translation_method |-> None,
     scheduling_method |-> None, instruction_durations |-> None, dt |-> None,
     approximation_degree |-> FloatOne, timing_constraints |-> None,
     seed_transpiler |-> None, optimization_level |-> None, callback |-> None,
     output_name |-> None, unitary_synthesis_method |-> PyStr("default"),
     unitary_synthesis_plugin_config |-> None, target |-> None, hls_config |-> None,
     init_method |-> None, optimization_method |-> None,
     ignore_backend_supplied_default_methods |-> FALSE]

(***************************************************************************)
(* transpile().  The call runs from "call" through the resolver ("parsed") *)
(* and the width precheck ("checked") into the serial loop or the parallel *)
(* map, and ends "returned" or "raised".                                   *)
(***************************************************************************)
Pending == [kind |-> "pending"]
Returned(v) == [kind |-> "return", value |-> v]
NoShm == [state |-> "none"]
NoOutputs == [i \in {} |-> None]

\* lines 286-287: a single circuit is wrapped in a list
arg_circuits_list == IsList(args.circuits)
InputCircuits == IF arg_circuits_list THEN args.circuits.items ELSE <<args.circuits>>

\* a default level of 1 whatever the user configuration says
level_defaulting_to_one ==
    IF IsNone(args.optimization_level) THEN PyNum(1) ELSE args.optimization_level

\* lines 299-302: the optimization level, from the user configuration or 1
ResolvedLevel ==
    IF IsNone(args.optimization_level) THEN
        IF env.transpile_optimization_level = Absent THEN PyNum(1)
        ELSE env.transpile_optimization_level
    ELSE args.optimization_level

\* lines 304-314: the warning for scheduling without a source of durations
SchedulingWarning ==
    IF /\ ~IsNone(args.scheduling_method)
       /\ IsNone(args.backend)
       /\ IsNone(args.target)
       /\ ~Truthy(args.instruction_durations)
    THEN {Warning("UserWarning", "instruction_durations")} ELSE {}

\* lines 316-343: the outcome of the argument resolution
Resolved(parsed) ==
    /\ warned' = warned \cup SchedulingWarning \cup parsed.warns
    /\ IF IsRaise(parsed.raised) THEN
           /\ pc' = "raised"
           /\ result' = parsed.raised
           /\ UNCHANGED <<shared_args, unique_transpile_args>>
       ELSE
           /\ pc' = "parsed"
           /\ shared_args' = parsed.shared
           /\ unique_transpile_args' = parsed.unique
           /\ UNCHANGED result

\* the batch holds a circuit, so the call resolves its arguments
Resolves == \E i \in 1..Len(InputCircuits) : InputCircuits[i].kind = "QuantumCircuit"

\* a resolution that adds the calibrations to the target itself
target_updated_in_place(a, p) ==
    IF ~IsNone(p.inst_map) /\ p.inst_map.custom /\ ~IsNone(p.target)
    THEN IF ~IsNone(a.target)
         THEN [a EXCEPT !.target = TargetUpdated(p.target, p.inst_map)]
         ELSE [a EXCEPT !.backend.target = TargetUpdated(p.target, p.inst_map)]
    ELSE a

\* lines 568-571: the caller's objects as the resolution leaves them; the
\* calibrations of custom gates go into copy.deepcopy(target), so that the
\* target of the caller or of the backend is only read
CallerObjects(a, p) == a

\* a shortcut taken as soon as one element is a schedule
shortcut_for_any_schedule(circs) ==
    IF Len(circs) = 0 THEN "empty"
    ELSE IF \E i \in 1..Len(circs) : circs[i].kind = "Schedule" THEN "schedules"
    ELSE "none"

\* no test for an empty batch: all() holds of an empty list
shortcut_without_empty_test(circs) ==
    IF \A i \in 1..Len(circs) : circs[i].kind = "Schedule" THEN "schedules"
    ELSE "none"

\* lines 289-298: the early returns, for an empty batch and for a batch of
\* schedules only
Shortcut(circs) ==
    IF Len(circs) = 0 THEN "empty"
    ELSE IF \A i \in 1..Len(circs) : circs[i].kind = "Schedule" THEN "schedules"
    ELSE "none"

\* lines 286-343: the shortcuts for an empty batch and for schedules, the
\* scheduling warning and the argument resolution
Begin ==
    /\ pc = "call"
    /\ circuits' = InputCircuits
    /\ IF Shortcut(InputCircuits) = "empty" THEN
           /\ pc' = "returned"
           /\ result' = Returned(PyList(<<>>))
           /\ UNCHANGED <<warned, shared_args, unique_transpile_args>>
       ELSE IF Shortcut(InputCircuits) = "schedules" THEN
           /\ pc' = "returned"
           /\ warned' = warned \cup {Warning("UserWarning", "schedules")}
           /\ result' = Returned(args.circuits)
           /\ UNCHANGED <<shared_args, unique_transpile_args>>
       ELSE Resolved(_parse_transpile_args(InputCircuits, args, ResolvedLevel))
    /\ args' = IF Shortcut(InputCircuits) = "none"
               THEN CallerObjects(args, ParsedArgs(InputCircuits, args, TargetOverrides(args)))
               ELSE args
    /\ UNCHANGED <<env, cmap_conf, runs, pass_managers, output_circuits, shm>>

\* lines 344-349: the width precheck
CheckWidth ==
    /\ pc = "parsed"
    /\ cmap_conf' =
           IF "coupling_map" \notin DOMAIN shared_args
           THEN [i \in 1..Len(unique_transpile_args) |->
                    unique_transpile_args[i]["pass_manager_config"].d["coupling_map"]]
           ELSE [i \in 1..Len(circuits) |-> shared_args["coupling_map"]]
    /\ IF IsRaise(_check_circuits_coupling_map(circuits, cmap_conf', args.backend))
       THEN /\ pc' = "raised"
            /\ result' = _check_circuits_coupling_map(circuits, cmap_conf', args.backend)
       ELSE /\ pc' = "checked"
            /\ UNCHANGED result
    /\ UNCHANGED <<args, env, circuits, shared_args, unique_transpile_args, warned, runs,
                   pass_managers, output_circuits, shm>>

\* the number of (circuit, configuration) pairs: zip stops at the shorter list
NumTasks == Min2(Len(circuits), Len(unique_transpile_args))

\* a dispatch that does not look at QISKIT_IN_PARALLEL
dispatch_ignoring_worker_flag ==
    /\ pc = "checked"
    /\ IF Len(circuits) > 1 /\ env.PARALLEL_DEFAULT
       THEN /\ pc' = "parallel"
            /\ shm' = [state |-> "open", data |-> shared_args]
       ELSE /\ pc' = "serial"
            /\ UNCHANGED shm
    /\ UNCHANGED <<args, env, circuits, shared_args, unique_transpile_args, cmap_conf,
                   warned, runs, pass_managers, output_circuits, result>>

\* lines 350-360: the choice of the path; the parallel path pickles the shared
\* arguments into a shared-memory block
Dispatch ==
    /\ pc = "checked"
    /\ IF /\ Len(circuits) > 1
          /\ env.QISKIT_IN_PARALLEL = "FALSE"
          /\ env.PARALLEL_DEFAULT
       THEN /\ pc' = "parallel"
            /\ shm' = [state |-> "open", data |-> shared_args]
       ELSE /\ pc' = "serial"
            /\ UNCHANGED shm
    /\ UNCHANGED <<args, env, circuits, shared_args, unique_transpile_args, cmap_conf,
                   warned, runs, pass_managers, output_circuits, result>>

\* the record of one pass_manager.run() call
RunRecord(i, pass_manager, callback, output_name, where) ==
    [index |-> i, circuit |-> circuits[i].id, pass_manager |-> pass_manager,
     callback |-> callback, output_name |-> output_name, where |-> where]

\* line 370-377: the outcome of _serial_transpile_circuit for circuit i; an
\* exception leaves the loop and the call
Ran(i, out) ==
    IF IsRaise(out)
    THEN /\ pc' = "raised"
         /\ result' = out
         /\ UNCHANGED output_circuits
    ELSE /\ output_circuits' = Overlay(output_circuits, [k \in {i} |-> out])
         /\ UNCHANGED <<pc, result>>

\* lines 368-377: one iteration of the serial loop
SerialStep ==
    /\ pc = "serial"
    /\ LET i == Cardinality(DOMAIN output_circuits) + 1
       IN  /\ i <= NumTasks
           /\ LET c == _combine_args(shared_args, unique_transpile_args[i])
                  cfg == c.transpile_config
              IN  /\ shared_args' = c.shared
                  /\ unique_transpile_args' = [unique_transpile_args EXCEPT ![i] = cfg]
                  /\ IF IsRaise(c.raised)
                     THEN /\ pc' = "raised"
                          /\ result' = c.raised
                          /\ UNCHANGED <<runs, pass_managers, output_circuits>>
                     ELSE /\ pass_managers' = Append(pass_managers, c.pass_manager)
                          /\ runs' = Append(runs, RunRecord(i, c.pass_manager,
                                                cfg["callback"], cfg["output_name"], "serial"))
                          /\ Ran(i, PassManagerRun(c.pass_manager, circuits[i],
                                                   cfg["callback"], cfg["output_name"]))
    /\ UNCHANGED <<args, env, circuits, cmap_conf, warned, shm>>

\* a worker that compiles again a circuit whose compilation has failed
worker_retrying(i) ==
    /\ pc = "parallel"
    /\ i \in 1..NumTasks
    /\ IF i \in DOMAIN output_circuits THEN IsRaise(output_circuits[i]) ELSE TRUE
    /\ Len(runs) < 2 * MaxCircuits
    /\ shm.state = "open"
    /\ LET c == _combine_args(shm.data, unique_transpile_args[i])
           cfg == c.transpile_config
       IN  IF IsRaise(c.raised)
           THEN /\ output_circuits' = Overlay(output_circuits, [k \in {i} |-> c.raised])
                /\ UNCHANGED <<runs, pass_managers>>
           ELSE /\ pass_managers' = Append(pass_managers, c.pass_manager)
                /\ runs' = Append(runs, RunRecord(i, c.pass_manager,
                                      cfg["callback"], cfg["output_name"], "worker"))
                /\ output_circuits' =
                       Overlay(output_circuits,
                           [k \in {i} |-> PassManagerRun(c.pass_manager, circuits[i],
                                              cfg["callback"], cfg["output_name"])])
    /\ UNCHANGED <<args, env, pc, circuits, shared_args, unique_transpile_args, cmap_conf,
                   warned, shm, result>>

\* a worker that takes the first circuit's arguments for every circuit
worker_with_first_config(i) ==
    /\ pc = "parallel"
    /\ i \in 1..NumTasks
    /\ i \notin DOMAIN output_circuits
    /\ shm.state = "open"
    /\ LET c == _combine_args(shm.data, unique_transpile_args[1])
           cfg == c.transpile_config
       IN  IF IsRaise(c.raised)
           THEN /\ output_circuits' = Overlay(output_circuits, [k \in {i} |-> c.raised])
                /\ UNCHANGED <<runs, pass_managers>>
           ELSE /\ pass_managers' = Append(pass_managers, c.pass_manager)
                /\ runs' = Append(runs, RunRecord(i, c.pass_manager,
                                      cfg["callback"], cfg["output_name"], "worker"))
                /\ output_circuits' =
                       Overlay(output_circuits,
                           [k \in {i} |-> PassManagerRun(c.pass_manager, circuits[i],
                                              cfg["callback"], cfg["output_name"])])
    /\ UNCHANGED <<args, env, pc, circuits, shared_args, unique_transpile_args, cmap_conf,
                   warned, shm, result>>

\* lines 453-480: _transpile_circuit in a worker process, on its own copies of
\* the shared arguments (unpickled from the block) and of the task
Worker(i) ==
    /\ pc = "parallel"
    /\ i \in 1..NumTasks
    /\ i \notin DOMAIN output_circuits
    /\ shm.state = "open"
    /\ LET c == _combine_args(shm.data, unique_transpile_args[i])
           cfg == c.transpile_config
       IN  IF IsRaise(c.raised)
           THEN /\ output_circuits' = Overlay(output_circuits, [k \in {i} |-> c.raised])
                /\ UNCHANGED <<runs, pass_managers>>
           ELSE /\ pass_managers' = Append(pass_managers, c.pass_manager)
                /\ runs' = Append(runs, RunRecord(i, c.pass_manager,
                                      cfg["callback"], cfg["output_name"], "worker"))
                /\ output_circuits' =
                       Overlay(output_circuits,
                           [k \in {i} |-> PassManagerRun(c.pass_manager, circuits[i],
                                              cfg["callback"], cfg["output_name"])])
    /\ UNCHANGED <<args, env, pc, circuits, shared_args, unique_transpile_args, cmap_conf,
                   warned, shm, result>>

\* results collected with the segment released only when every task succeeded
finish_keeping_segment_on_failure ==
    /\ pc \in {"serial", "parallel"}
    /\ DOMAIN output_circuits = 1..NumTasks
    /\ LET outs == [i \in 1..NumTasks |-> output_circuits[i]]
           failed == {i \in 1..NumTasks : IsRaise(outs[i])}
       IN  IF failed # {}
           THEN /\ pc' = "raised"
                /\ result' = outs[CHOOSE i \in failed : \A j \in failed : i <= j]
                /\ UNCHANGED <<circuits, shm>>
           ELSE /\ pc' = "returned"
                /\ circuits' = outs
                /\ shm' = IF pc = "parallel" THEN [state |-> "released"] ELSE shm
                /\ result' = Returned(IF arg_circuits_list THEN PyList(outs) ELSE outs[1])
    /\ UNCHANGED <<args, env, shared_args, unique_transpile_args, cmap_conf, warned, runs,
                   pass_managers, output_circuits>>

\* lines 362-365 and 378-382: the results in task order; leaving the
\* SharedMemoryManager releases the block; a single circuit is unwrapped
Finish ==
    /\ pc \in {"serial", "parallel"}
    /\ DOMAIN output_circuits = 1..NumTasks
    /\ LET outs == [i \in 1..NumTasks |-> output_circuits[i]]
           failed == {i \in 1..NumTasks : IsRaise(outs[i])}
       IN  /\ shm' = IF pc = "parallel" THEN [state |-> "released"] ELSE shm
           /\ IF failed # {}
              THEN /\ pc' = "raised"
                   /\ result' = outs[CHOOSE i \in failed : \A j \in failed : i <= j]
                   /\ UNCHANGED circuits
              ELSE /\ pc' = "returned"
                   /\ circuits' = outs
                   /\ result' = Returned(IF arg_circuits_list THEN PyList(outs) ELSE outs[1])
    /\ UNCHANGED <<args, env, shared_args, unique_transpile_args, cmap_conf, warned, runs,
                   pass_managers, output_circuits>>

Next ==
    \/ Begin
    \/ CheckWidth
    \/ Dispatch
    \/ SerialStep
    \/ \E i \in 1..MaxCircuits : Worker(i)
    \/ Finish

\* the state before the call, for the arguments `a` in the environment `e`
Start(a, e) ==
    /\ args = a
    /\ env = e
    /\ pc = "call"
    /\ circuits = <<>>
    /\ shared_args = [k \in {} |-> None]
    /\ unique_transpile_args = <<>>
    /\ cmap_conf = <<>>
    /\ warned = {}
    /\ runs = <<>>
    /\ pass_managers = <<>>
    /\ output_circuits = NoOutputs
    /\ shm = NoShm
    /\ result = Pending

(***************************************************************************)
(* Calls that vary the circuits' widths and the sources of the coupling    *)
(* map: the argument (a raw list, a CouplingMap, a list of per-circuit     *)
(* CouplingMaps), the target and the backend.                              *)
(***************************************************************************)
ListBatches == UNION {Batches(n, 1..MaxQubits) : n \in 1..MaxCircuits}

CouplingArgs ==
    {None, CouplingMap(Chain(2, "arg"))}
    \cup {RawCouplingList(Chain(n, "arg")) : n \in 2..MaxPhys}
    \cup {PyList(l) : l \in SeqsOf({CouplingMap(Chain(2, "arg")),
                                   CouplingMap(Chain(MaxPhys, "arg"))}, 1, MaxCircuits)}

\* parallel dispatch enabled, or disabled
TwoEnvs == {e \in Envs : e.QISKIT_IN_PARALLEL = "FALSE"}

WidthArgs ==
    {[DefaultArgs(PyList(b)) EXCEPT !.backend = bk, !.coupling_map = cm, !.target = t] :
        b \in ListBatches, bk \in Backends, cm \in CouplingArgs, t \in Targets}

InitWidth == \E a \in WidthArgs, e \in TwoEnvs : Start(a, e)

SpecWidth == InitWidth /\ [][Next]_vars

(***************************************************************************)
(* Calls that vary the sources of the resolved values: which arguments are *)
(* given, the target and the backend.                                      *)
(***************************************************************************)
\* a batch of one circuit and a batch of MaxCircuits circuits, of one qubit each
SmallBatches == Batches(1, {1}) \cup Batches(MaxCircuits, {1})

DurationArgs ==
    {None, PyList(<<>>),
     PyList(<<[kind |-> "tuple", name |-> "cx", src |-> "arg"]>>),
     InstructionDurations([g \in {"x"} |-> "arg"], None)}

TimingArgs ==
    {None, PyDict([k \in {"granularity"} |-> 16]),
     TimingConstraints([k \in {"granularity"} |-> 16])}

HardwareArgs ==
    {[DefaultArgs(PyList(b)) EXCEPT
          !.coupling_map = cm, !.basis_gates = bg, !.inst_map = im,
          !.backend_properties = bp] :
        b \in SmallBatches,
        cm \in {None, RawCouplingList(Chain(2, "arg"))},
        bg \in {None, Opaque("basis_gates", "arg")},
        im \in {None, InstructionScheduleMap("arg", FALSE),
                InstructionScheduleMap("arg", TRUE)},
        bp \in {None, Opaque("BackendProperties", "arg")}}

TimingRelatedArgs ==
    {[DefaultArgs(PyList(b)) EXCEPT
          !.instruction_durations = du, !.dt = dt, !.timing_constraints = tc,
          !.scheduling_method = sm] :
        b \in SmallBatches, du \in DurationArgs, dt \in {None, DtOf("arg")},
        tc \in TimingArgs, sm \in {None, PyStr("alap")}}

PrecedenceArgs ==
    {[a EXCEPT !.backend = bk, !.target = t] :
        a \in HardwareArgs \cup TimingRelatedArgs, bk \in Backends, t \in Targets}

InitPrecedence == \E a \in PrecedenceArgs, e \in TwoEnvs : Start(a, e)

SpecPrecedence == InitPrecedence /\ [][Next]_vars

(***************************************************************************)
(* Calls that vary the form of initial_layout: a list of physical indices, *)
(* a list of qubits and None, a dict, a Layout, a list of per-circuit      *)
(* layouts.                                                                *)
(***************************************************************************)
PhysIndices == 0..(MaxPhys - 1)

IntLists == {PyList([i \in 1..Len(l) |-> PyNum(l[i])]) : l \in SeqsOf(PhysIndices, 1, MaxPhys)}

QubitLists == {PyList(l) : l \in SeqsOf({None, Qubit(1, 0), Qubit(1, 1)}, 2, 3)}

LayoutDicts ==
    {LayoutDict(<<[virt |-> Qubit(1, 0), phys |-> 0]>>),
     LayoutDict(<<[virt |-> Qubit(1, 0), phys |-> 0], [virt |-> Qubit(1, 1), phys |-> 1]>>),
     LayoutDict(<<[virt |-> Qubit(1, 0), phys |-> 0], [virt |-> Qubit(1, 1), phys |-> 0]>>)}

Layouts ==
    {Layout([p \in {0} |-> Qubit(1, 0)]),
     Layout([p \in {0, 1} |-> Qubit(1, p)])}

LayoutLists ==
    {PyList(l) : l \in SeqsOf({PyList(<<PyNum(0), PyNum(1)>>), PyList(<<PyNum(1), PyNum(1)>>),
                               LayoutDict(<<[virt |-> Qubit(1, 0), phys |-> 0]>>)},
                              1, MaxCircuits)}

LayoutBatches == UNION {Batches(n, {2, MaxQubits}) : n \in 1..MaxCircuits}

LayoutArgs ==
    {[DefaultArgs(PyList(b)) EXCEPT !.initial_layout = lo] :
        b \in LayoutBatches,
        lo \in {None} \cup IntLists \cup QubitLists \cup LayoutDicts \cup Layouts
               \cup LayoutLists}

InitLayout == \E a \in LayoutArgs, e \in TwoEnvs : Start(a, e)

SpecLayout == InitLayout /\ [][Next]_vars

(***************************************************************************)
(* Calls that vary the shape of the input (one circuit, a list), the       *)
(* approximation degree and the output names.                              *)
(***************************************************************************)
ApproximationArgs ==
    {None} \cup {Float(h) : h \in -1..3}
    \cup {PyList(l) : l \in SeqsOf({None, Float(-1), Float(1), Float(3)}, 1, MaxCircuits)}

OutputNameArgs ==
    {None, PyStr("foo"), PyNum(5)}
    \cup {PyList(l) : l \in SeqsOf({PyStr("foo"), PyStr("bar"), PyNum(5)}, 1, MaxCircuits)}

NamedInputs ==
    {QuantumCircuit(1, CircuitName(1), 1)}
    \cup {PyList(b) : b \in UNION {Batches(n, {1}) : n \in 1..MaxCircuits}}

NamesArgs ==
    {[DefaultArgs(c) EXCEPT !.approximation_degree = ad, !.output_name = on] :
        c \in NamedInputs, ad \in ApproximationArgs, on \in OutputNameArgs}

InitNames == \E a \in NamesArgs, e \in Envs : Start(a, e)

SpecNames == InitNames /\ [][Next]_vars

(***************************************************************************)
(* Calls that vary the environment (parallel dispatch, the worker flag,    *)
(* the user configuration), the optimization level, and which circuits of  *)
(* the batch the pass manager fails on.                                    *)
(***************************************************************************)
\* the batches of n one-qubit circuits, each supported by the passes or not
RunBatches(n) ==
    {[i \in 1..n |-> IF i \in bad THEN UnsupportedCircuit(i, CircuitName(i), 1)
                     ELSE QuantumCircuit(i, CircuitName(i), 1)] : bad \in SUBSET (1..n)}

RunInputs ==
    {QuantumCircuit(1, CircuitName(1), 1)}
    \cup {PyList(b) : b \in UNION {RunBatches(n) : n \in 1..MaxCircuits}}

\* levels 0 to 3, and a level out of range
LevelArgs == {None} \cup {PyNum(k) : k \in 0..4}

RunEnvs ==
    [PARALLEL_DEFAULT : BOOLEAN, QISKIT_IN_PARALLEL : {"FALSE", "TRUE"},
     transpile_optimization_level : {Absent, PyNum(0), PyNum(3)}]

RunsArgs ==
    {[DefaultArgs(c) EXCEPT !.optimization_level = lv] : c \in RunInputs, lv \in LevelArgs}

InitRuns == \E a \in RunsArgs, e \in RunEnvs : Start(a, e)

SpecRuns == InitRuns /\ [][Next]_vars

(***************************************************************************)
(* Calls that give arguments as lists of per-circuit values, one value for *)
(* each circuit of the batch.                                              *)
(***************************************************************************)
\* the list of the values v[1], ..., v[n]
PerCircuit(n, v) == PyList([i \in 1..n |-> v[i]])

SeedArgs(n) == {None, PyNum(7), PerCircuit(n, [i \in 1..n |-> PyNum(10 + i)])}

CallbackArgs(n) ==
    {None, Opaque("callback", "arg"),
     PerCircuit(n, [i \in 1..n |-> Opaque("callback", CircuitName(i))])}

OneLayoutArgs(n) ==
    {None, PyList(<<PyNum(0)>>), PerCircuit(n, [i \in 1..n |-> PyList(<<PyNum(0)>>)])}

OneDurationArgs == {None, PyList(<<[kind |-> "tuple", name |-> "cx", src |-> "arg"]>>)}

DegreeArgs(n) == {FloatOne, PerCircuit(n, [i \in 1..n |-> Float(i % 3)])}

MapArgs(n) ==
    {None, PerCircuit(n, [i \in 1..n |-> CouplingMap(Chain(1 + i, "arg"))])}

\* the calls on the input c, which holds n circuits
BroadcastCalls(c, n) ==
    {[DefaultArgs(c) EXCEPT
          !.seed_transpiler = sd, !.callback = cb, !.initial_layout = lo,
          !.instruction_durations = du, !.approximation_degree = ad,
          !.coupling_map = cm] :
        sd \in SeedArgs(n), cb \in CallbackArgs(n), lo \in OneLayoutArgs(n),
        du \in OneDurationArgs, ad \in DegreeArgs(n), cm \in MapArgs(n)}

BroadcastArgs ==
    BroadcastCalls(QuantumCircuit(1, CircuitName(1), 1), 1)
    \cup UNION {BroadcastCalls(PyList(b), Len(b)) :
                   b \in UNION {Batches(n, {1}) : n \in 1..MaxCircuits}}

InitBroadcast == \E a \in BroadcastArgs, e \in TwoEnvs : Start(a, e)

SpecBroadcast == InitBroadcast /\ [][Next]_vars

(***************************************************************************)
(* Every call of the above.                                                *)
(***************************************************************************)
Init ==
    \/ InitWidth
    \/ InitPrecedence
    \/ InitLayout
    \/ InitNames
    \/ InitRuns
    \/ InitBroadcast

Spec == Init /\ [][Next]_vars

(***************************************************************************)
(* The properties.                                                         *)
(***************************************************************************)
\* the call has raised TranspilerError and no pass manager has run
RaisedBeforeAnyRun ==
    /\ pc = "raised"
    /\ result.exc = "TranspilerError"
    /\ runs = <<>>

\* circuit i is wider than the coupling map resolved for it
WiderThanMap(i) ==
    /\ cmap_conf[i].kind = "CouplingMap"
    /\ InputCircuits[i].num_qubits > CouplingMapSize(cmap_conf[i])

\* no coupling map was resolved for circuit i, and it is wider than the backend
WiderThanBackend(i) ==
    /\ cmap_conf[i].kind # "CouplingMap"
    /\ ~IsNone(args.backend)
    /\ InputCircuits[i].num_qubits > args.backend.num_qubits

LegacySimulator == args.backend.version <= 1 /\ args.backend.simulator

CompiledFrom(out, c) == out.kind = "QuantumCircuit" /\ out.compiled_from = c.id

\* C2 as stated: a call that returns for an input holding a circuit gives one
\* compiled circuit for a single circuit, and for a list a list with one
\* compiled circuit per input, in the order of the input.
C2_Original ==
    (/\ pc = "returned"
     /\ \E i \in 1..Len(InputCircuits) : InputCircuits[i].kind = "QuantumCircuit")
    => IF arg_circuits_list
       THEN /\ IsList(result.value)
            /\ Len(result.value.items) = Len(InputCircuits)
            /\ \A i \in 1..Len(InputCircuits) :
                   CompiledFrom(result.value.items[i], InputCircuits[i])
       ELSE CompiledFrom(result.value, args.circuits)

\* the configuration resolved for circuit i, before any circuit is compiled
ResolvedConfig(i) ==
    Overlay(shared_args, unique_transpile_args[i]["pass_manager_config"].d)

\* the value of an explicit coupling_map argument, as a CouplingMap
ExplicitCouplingMap ==
    IF IsList(args.coupling_map) THEN CouplingMapFromList(args.coupling_map)
    ELSE args.coupling_map

\* the table of an explicit instruction_durations argument
ExplicitDurationTable ==
    IF IsList(args.instruction_durations) THEN TableOfList(args.instruction_durations)
    ELSE args.instruction_durations.tab

\* an explicit argument is the value in the configuration `cfg`
ExplicitWins(cfg) ==
    /\ ~IsNone(args.coupling_map) => cfg["coupling_map"] = ExplicitCouplingMap
    /\ ~IsNone(args.basis_gates) => cfg["basis_gates"] = args.basis_gates
    /\ ~IsNone(args.inst_map) => cfg["inst_map"] = args.inst_map
    /\ ~IsNone(args.backend_properties) =>
           cfg["backend_properties"] = args.backend_properties
    /\ ~IsNone(args.instruction_durations) =>
           cfg["instruction_durations"].tab = ExplicitDurationTable
    /\ ~IsNone(args.dt) => cfg["instruction_durations"].dt = args.dt

\* without the argument, the value from the target is the value in `cfg`
TargetWins(cfg) ==
    ~IsNone(args.target) =>
        /\ IsNone(args.coupling_map) => cfg["coupling_map"] = args.target.coupling_map
        /\ IsNone(args.basis_gates) => cfg["basis_gates"] = args.target.operation_names
        /\ IsNone(args.inst_map) => cfg["inst_map"] = args.target.inst_map
        /\ IsNone(args.backend_properties) =>
               cfg["backend_properties"] = args.target.properties
        /\ IsNone(args.instruction_durations) =>
               cfg["instruction_durations"].tab = args.target.durations.tab
        /\ IsNone(args.dt) => cfg["instruction_durations"].dt = args.target.dt

\* C3 as stated: for coupling_map, basis_gates, instruction_durations, inst_map,
\* dt and backend_properties, the value resolved for every circuit is the
\* explicit argument when one is given, and the value from the target when the
\* argument is None and a target is given.
C3_Original ==
    pc = "parsed" =>
        \A i \in 1..Len(unique_transpile_args) :
            ExplicitWins(ResolvedConfig(i)) /\ TargetWins(ResolvedConfig(i))

\* the timing constraints the call asks for: the explicit argument, else the
\* target's, else the backend's, else the defaults
ExpectedTimingConstraints ==
    IF ~IsNone(args.timing_constraints) THEN
        IF args.timing_constraints.kind = "dict"
        THEN TimingConstraints(args.timing_constraints.d)
        ELSE args.timing_constraints
    ELSE IF ~IsNone(args.target) THEN args.target.timing_constraints
    ELSE IF ~IsNone(args.backend) THEN
        IF args.backend.version <= 1
        THEN TimingConstraints(args.backend.timing_constraints.d)
        ELSE args.backend.target.timing_constraints
    ELSE TimingConstraints(EmptyDict)

\* C4 as stated: the timing constraints resolved for every circuit are the
\* explicit argument for every kind of backend, and only without the argument
\* the target's, else the backend's, else the defaults.
C4_Original ==
    pc = "parsed" =>
        \A i \in 1..Len(unique_transpile_args) :
            ResolvedConfig(i)["timing_constraints"] = ExpectedTimingConstraints

\* C5 as stated: with a scheduling method and no source of durations (no
\* instruction_durations, no backend, no target) the argument resolution raises
\* TranspilerError and no circuit is compiled.
C5_Original ==
    (/\ Truthy(args.scheduling_method)
     /\ IsNone(args.instruction_durations)
     /\ IsNone(args.backend)
     /\ IsNone(args.target))
    => \/ pc = "call"
       \/ /\ pc = "raised"
          /\ result = Raise("TranspilerError", "_parse_transpile_args")
          /\ runs = <<>>

\* the layout given for circuit i: the i-th of a list of layouts, else the one
\* layout given for all
per_circuit_layouts ==
    /\ IsList(args.initial_layout)
    /\ \E k \in 1..Len(args.initial_layout.items) :
           args.initial_layout.items[k].kind \in {"list", "dict", "Layout"}

LayoutGiven(i) ==
    IF per_circuit_layouts THEN args.initial_layout.items[i] ELSE args.initial_layout

\* the number of qubits a layout assigns
AssignedCount(lo) ==
    CASE lo.kind = "Layout" -> Cardinality(DOMAIN lo.p2v)
      [] lo.kind = "dict" -> Len(lo.pairs)
      [] OTHER -> Cardinality({k \in 1..Len(lo.items) : ~IsNone(lo.items[k])})

\* the layout assigns one physical qubit twice
AssignsTwice(lo) ==
    CASE lo.kind = "dict" ->
             \E j, k \in 1..Len(lo.pairs) : j # k /\ lo.pairs[j].phys = lo.pairs[k].phys
      [] lo.kind = "list" ->
             \E j, k \in 1..Len(lo.items) :
                 j # k /\ lo.items[j].kind = "num" /\ lo.items[j] = lo.items[k]
      [] OTHER -> FALSE

\* the circuits that have a layout given
LaidOut ==
    IF per_circuit_layouts
    THEN 1..Min2(Len(InputCircuits), Len(args.initial_layout.items))
    ELSE 1..Len(InputCircuits)

\* C6 as stated: an explicit initial_layout of any form (Layout, dict, list of
\* physical indices, list of qubits and None) that assigns a number of qubits
\* other than the circuit's, or one physical qubit twice, makes the resolution
\* raise TranspilerError.
C6_Original ==
    (/\ pc # "call"
     /\ ~IsNone(args.initial_layout)
     /\ \E i \in LaidOut :
            \/ AssignedCount(LayoutGiven(i)) # InputCircuits[i].num_qubits
            \/ AssignsTwice(LayoutGiven(i)))
    => /\ pc = "raised"
       /\ result = Raise("TranspilerError", "_parse_initial_layout")

\* initial_layout is a list of distinct physical indices
IsIndexList(lo) ==
    /\ IsList(lo)
    /\ Len(lo.items) > 0
    /\ \A k \in 1..Len(lo.items) : lo.items[k].kind = "num"
    /\ \A j, k \in 1..Len(lo.items) : j # k => lo.items[j] # lo.items[k]

\* the layout that assigns the i-th virtual qubit of circuit `c` to L[i]
IndexLayout(L, c) ==
    Layout([p \in {L.items[k].v : k \in 1..Len(L.items)} |->
               Qubit(c.id, (CHOOSE k \in 1..Len(L.items) : L.items[k].v = p) - 1)])

AllOfWidth(n) == \A i \in 1..Len(InputCircuits) : InputCircuits[i].num_qubits = n

\* C7: with initial_layout a list L of distinct physical indices as long as the
\* qubit count of each circuit, the resolution does not raise, the layout
\* resolved for every circuit assigns its i-th virtual qubit to L[i] and nothing
\* else, and that is the layout of the pass manager run on the circuit.
C7_IndexListLayout ==
    (IsIndexList(args.initial_layout) /\ AllOfWidth(Len(args.initial_layout.items))) =>
        /\ pc # "raised"
        /\ pc \in {"parsed", "checked"} =>
               /\ Len(unique_transpile_args) = Len(InputCircuits)
               /\ \A i \in 1..Len(InputCircuits) :
                      ResolvedConfig(i)["initial_layout"] =
                          IndexLayout(args.initial_layout, InputCircuits[i])
        /\ \A r \in 1..Len(runs) :
               runs[r].pass_manager.config.kwargs["initial_layout"] =
                   IndexLayout(args.initial_layout, InputCircuits[runs[r].index])

\* both circuits of a batch have been compiled with a layout that is not in
\* index order
C7_Witness ==
    /\ IsIndexList(args.initial_layout)
    /\ Len(args.initial_layout.items) = MaxQubits
    /\ AllOfWidth(MaxQubits)
    /\ args.initial_layout.items[1].v > args.initial_layout.items[2].v
    /\ Len(InputCircuits) = 2
    /\ Len(runs) = 2
    /\ pc = "returned"

\* a value outside [0.0, 1.0]
OutsideUnitInterval(d) == d.kind = "num" /\ (d.v < FloatZero.v \/ d.v > FloatOne.v)

\* approximation_degree, or one of its elements, is outside [0.0, 1.0]
DegreeOutOfRange ==
    IF IsList(args.approximation_degree)
    THEN \E k \in 1..Len(args.approximation_degree.items) :
             OutsideUnitInterval(args.approximation_degree.items[k])
    ELSE OutsideUnitInterval(args.approximation_degree)

\* the approximation degree given for circuit i
DegreeGiven(i) ==
    IF IsList(args.approximation_degree) THEN args.approximation_degree.items[i]
    ELSE args.approximation_degree

\* C8: once the arguments are resolved, an approximation_degree outside
\* [0.0, 1.0] (the scalar, or an element of a per-circuit list) has made the
\* call raise TranspilerError with no circuit compiled; a value inside the
\* interval, and None, raises nothing here and is the value resolved for the
\* circuit and handed to its pass manager.
C8_ApproximationDegree ==
    (pc # "call" /\ Resolves) =>
        IF DegreeOutOfRange
        THEN /\ pc = "raised"
             /\ result = Raise("TranspilerError", "_parse_approximation_degree")
             /\ runs = <<>>
        ELSE /\ pc = "raised" => result.at # "_parse_approximation_degree"
             /\ pc \in {"parsed", "checked"} =>
                    \A i \in 1..Len(unique_transpile_args) :
                        ResolvedConfig(i)["approximation_degree"] = DegreeGiven(i)
             /\ \A r \in 1..Len(runs) :
                    runs[r].pass_manager.config.kwargs["approximation_degree"] =
                        DegreeGiven(runs[r].index)

\* a list whose first element is inside the interval and whose second is
\* outside has raised
C8_Witness ==
    /\ pc = "raised"
    /\ result = Raise("TranspilerError", "_parse_approximation_degree")
    /\ IsList(args.approximation_degree)
    /\ Len(args.approximation_degree.items) = 2
    /\ ~OutsideUnitInterval(args.approximation_degree.items[1])
    /\ OutsideUnitInterval(args.approximation_degree.items[2])

\* output_name is a list of the wrong length or with a non-string, a string for
\* several circuits, or neither None, a string nor a list
BadOutputName ==
    CASE IsNone(args.output_name) -> FALSE
      [] IsStr(args.output_name) -> Len(InputCircuits) > 1
      [] IsList(args.output_name) ->
             \/ Len(args.output_name.items) # Len(InputCircuits)
             \/ \E k \in 1..Len(args.output_name.items) : ~IsStr(args.output_name.items[k])
      [] OTHER -> TRUE

\* C9: once the arguments are resolved, an output_name that is a list of the
\* wrong length or with a non-string element, a string for more than one
\* circuit, or neither None, a string nor a list has made the call raise
\* TranspilerError (from the output name check, unless the approximation degree
\* was rejected first) with no circuit compiled.
C9_OutputNameValidation ==
    (pc # "call" /\ Resolves /\ BadOutputName) =>
        /\ pc = "raised"
        /\ result.exc = "TranspilerError"
        /\ ~DegreeOutOfRange => result.at = "_parse_output_name"
        /\ runs = <<>>

\* a list of strings shorter than the batch has raised
C9_Witness ==
    /\ pc = "raised"
    /\ result = Raise("TranspilerError", "_parse_output_name")
    /\ IsList(args.output_name)
    /\ \A k \in 1..Len(args.output_name.items) : IsStr(args.output_name.items[k])
    /\ Len(args.output_name.items) < Len(InputCircuits)

\* the output name the call asks for circuit i
NameGiven(i) ==
    CASE IsNone(args.output_name) -> PyStr(InputCircuits[i].name)
      [] IsList(args.output_name) -> args.output_name.items[i]
      [] OTHER -> args.output_name

\* C10: with output_name a list of N strings for N circuits, None, or a string
\* for a single circuit, every pass manager run, in the serial loop and in a
\* worker, is handed the name given for its circuit: output_name[i], the
\* circuit's own name, or the string; and the compiled circuit carries it.
C10_OutputNameHandedOver ==
    ~BadOutputName =>
        /\ \A r \in 1..Len(runs) : runs[r].output_name = NameGiven(runs[r].index)
        /\ \A i \in DOMAIN output_circuits :
               ~IsRaise(output_circuits[i]) => output_circuits[i].name = NameGiven(i)

\* two workers have compiled the circuits of a batch named by a list, the
\* second circuit first
C10_Witness ==
    /\ pc = "returned"
    /\ IsList(args.output_name)
    /\ Len(args.output_name.items) = 2
    /\ args.output_name.items[1] # args.output_name.items[2]
    /\ Len(runs) = 2
    /\ runs[1].index = 2
    /\ runs[1].where = "worker"

\* the conditions of the parallel path: several circuits, parallel dispatch
\* enabled, and not inside a parallel worker
ParallelCall ==
    /\ Len(InputCircuits) > 1
    /\ env.PARALLEL_DEFAULT
    /\ env.QISKIT_IN_PARALLEL = "FALSE"

\* C11: the circuits are compiled by workers exactly when more than one
\* circuit is given, parallel dispatch is enabled and QISKIT_IN_PARALLEL is
\* "FALSE"; in every other case every compilation is made by the serial loop
\* of the calling process and no shared-memory segment is ever created.
C11_ParallelExactlyWhen ==
    /\ pc = "parallel" => ParallelCall
    /\ pc = "serial" => ~ParallelCall
    /\ \A r \in 1..Len(runs) : (runs[r].where = "worker") <=> ParallelCall
    /\ ParallelCall => (shm.state = "none" <=> pc \in {"call", "parsed", "checked"}
                                               \/ (pc = "raised" /\ runs = <<>>
                                                   /\ output_circuits = NoOutputs))
    /\ ~ParallelCall => shm = NoShm

\* inside a worker, with parallel dispatch enabled, two circuits have been
\* compiled by the serial loop and no segment exists
C11_Witness ==
    /\ pc = "returned"
    /\ env.PARALLEL_DEFAULT
    /\ env.QISKIT_IN_PARALLEL = "TRUE"
    /\ Len(runs) = 2
    /\ \A r \in 1..Len(runs) : runs[r].where = "serial"
    /\ shm = NoShm

\* the pass manager that the resolved arguments `parsed` ask for circuit i: the
\* preset of the resolved level, configured with the shared arguments overlaid
\* with the circuit's own
PassManagerAskedFor(parsed, i) ==
    PassManager(parsed.shared["optimization_level"],
                PassManagerConfig(
                    Overlay(Without(parsed.shared, "optimization_level"),
                            parsed.unique[i]["pass_manager_config"].d)))

\* every pass manager run so far, in the serial loop or in a worker, was handed
\* what `parsed` asks for its circuit
RunsAsResolved(parsed) ==
    \A r \in 1..Len(runs) :
        /\ runs[r].pass_manager = PassManagerAskedFor(parsed, runs[r].index)
        /\ runs[r].callback = parsed.unique[runs[r].index]["callback"]
        /\ runs[r].output_name = parsed.unique[runs[r].index]["output_name"]

\* the call has returned, in the order of the tasks, what the pass managers
\* that `parsed` asks for give
ReturnsAsResolved(parsed) ==
    LET outs == [i \in 1..Len(parsed.unique) |->
                    PassManagerRun(PassManagerAskedFor(parsed, i), InputCircuits[i],
                                   parsed.unique[i]["callback"],
                                   parsed.unique[i]["output_name"])]
    IN  result = Returned(IF arg_circuits_list THEN PyList(outs) ELSE outs[1])

\* C12: on the serial path and on the parallel path alike, the pass manager run
\* on circuit i is the preset of the resolved level configured with the shared
\* arguments overlaid with circuit i's, and is handed circuit i's callback and
\* output name; a call that returns gives the same outputs in the same order
\* on either path.
C12_PathsHandOverTheSame ==
    /\ runs # <<>> =>
           RunsAsResolved(_parse_transpile_args(InputCircuits, args, ResolvedLevel))
    /\ (pc = "returned" /\ Resolves) =>
           ReturnsAsResolved(_parse_transpile_args(InputCircuits, args, ResolvedLevel))

\* two workers have compiled, the second circuit first, a batch whose circuits
\* have their own seeds and callbacks
C12_Witness ==
    /\ pc = "returned"
    /\ Len(runs) = 2
    /\ runs[1].where = "worker"
    /\ runs[1].index = 2
    /\ IsList(args.seed_transpiler)
    /\ IsList(args.callback)
    /\ runs[1].pass_manager # runs[2].pass_manager

\* the compilation of some circuit of the batch has raised
CompilationRaised ==
    \E r \in 1..Len(runs) : InputCircuits[runs[r].index].unsupported

\* C13 as stated, in its first requirement: when the compilation of one circuit
\* of a batch has raised and the call has ended with the error, every sibling
\* circuit has been run through its pass manager as well (no sibling was
\* blocked by the failure).
C13_Original ==
    (pc = "raised" /\ CompilationRaised) =>
        \A j \in 1..NumTasks : \E r \in 1..Len(runs) : runs[r].index = j

\* the segment is open exactly while the workers run, and holds the shared
\* arguments as the main process pickled them
SegmentBounded ==
    /\ pc = "parallel" => shm = [state |-> "open", data |-> shared_args]
    /\ pc # "parallel" => shm.state # "open"

\* the main process writes the segment, before any worker has run
SegmentWritten ==
    /\ shm = NoShm
    /\ pc = "checked"
    /\ shm' = [state |-> "open", data |-> shared_args]
    /\ runs = <<>> /\ runs' = runs
    /\ output_circuits = NoOutputs /\ output_circuits' = output_circuits

\* the segment is released, after every worker has given its result or its
\* exception
SegmentReleased ==
    /\ shm.state = "open"
    /\ shm' = [state |-> "released"]
    /\ DOMAIN output_circuits = 1..NumTasks
    /\ output_circuits' = output_circuits
    /\ pc' \in {"returned", "raised"}

\* a step of a worker changes neither the segment nor the caller's shared
\* arguments
WorkerStepReadsOnly ==
    output_circuits' # output_circuits /\ pc = "parallel" =>
        shm' = shm /\ shared_args' = shared_args

\* C14: on the parallel path the shared arguments are written into the segment
\* once, by the main process and before any worker runs; no worker changes the
\* segment; the segment is released only after every worker has finished, also
\* when a worker has failed, and is never open once the call has ended.
C14_SegmentLifecycle ==
    /\ []SegmentBounded
    /\ [][/\ shm' # shm => SegmentWritten \/ SegmentReleased
          /\ WorkerStepReadsOnly]_vars

\* a worker has failed, its sibling has compiled its circuit, and the segment
\* is released
C14_Witness ==
    /\ pc = "raised"
    /\ shm = [state |-> "released"]
    /\ \E i \in DOMAIN output_circuits : IsRaise(output_circuits[i])
    /\ \E i \in DOMAIN output_circuits : ~IsRaise(output_circuits[i])

\* C15 as stated: within a call a pass manager is built once for each
\* configuration: no two of the pass managers built have the same level and
\* the same configuration.
C15_Original ==
    \A j, k \in 1..Len(pass_managers) :
        j # k => pass_managers[j] # pass_managers[k]

\* the level the call asks for: the argument, else the user configuration's
\* transpile_optimization_level, else 1
LevelAskedFor ==
    IF ~IsNone(args.optimization_level) THEN args.optimization_level
    ELSE IF env.transpile_optimization_level # Absent THEN env.transpile_optimization_level
    ELSE PyNum(1)

FirstIsOf(l, kinds) == Len(l.items) > 0 /\ l.items[1].kind \in kinds

\* some argument is given in the legacy convention, as a list of per-circuit
\* values (a list of output names is not legacy)
UsesBroadcast ==
    \/ IsList(args.seed_transpiler)
    \/ IsList(args.callback)
    \/ IsList(args.approximation_degree)
    \/ IsList(args.backend_properties)
    \/ IsList(args.timing_constraints)
    \/ IsList(args.coupling_map) /\ FirstIsOf(args.coupling_map, {"CouplingMap"})
    \/ IsList(args.initial_layout)
          /\ FirstIsOf(args.initial_layout, {"list", "dict", "Layout"})
    \/ IsList(args.instruction_durations)
          /\ FirstIsOf(args.instruction_durations, {"InstructionDurations"})

DeprecationWarned == \E w \in warned : w.category = "DeprecationWarning"

\* C17 as stated: once the arguments are resolved, a DeprecationWarning has
\* been emitted when, and only when, some argument is given as a list of
\* per-circuit values.
C17_Original ==
    pc \in {"parsed", "checked", "serial", "parallel", "returned"} =>
        (DeprecationWarned <=> UsesBroadcast)

\* C18: within a call no circuit is submitted to a pass manager twice, on
\* either path, and a compilation that has raised is not attempted again: the
\* serial loop submits nothing after it, and no other run has its index.
C18_NoRetries ==
    /\ \A q, r \in 1..Len(runs) : q # r => runs[q].index # runs[r].index
    /\ \A r \in 1..Len(runs) :
           (runs[r].where = "serial" /\ InputCircuits[runs[r].index].unsupported)
               => r = Len(runs)
    /\ Len(runs) <= Len(InputCircuits)

\* the call has ended with the error of a compilation, after two submissions
C18_Witness ==
    /\ pc = "raised"
    /\ CompilationRaised
    /\ Len(runs) = 2
    /\ result = Raise("TranspilerError", "PassManager.run")

\* the seed given for circuit i: the one seed of the call, or the i-th of a list
SeedGiven(i) ==
    IF IsList(args.seed_transpiler) THEN args.seed_transpiler.items[i]
    ELSE args.seed_transpiler

\* what the call has resolved is what its circuits, its arguments and the
\* resolved level determine, whatever the environment and the path
ResolvedFrom(parsed) ==
    /\ pc \in {"parsed", "checked"} =>
           /\ shared_args = parsed.shared
           /\ unique_transpile_args = parsed.unique
    /\ (pc = "parallel" /\ shm.state = "open") =>
           /\ shm.data = parsed.shared
           /\ unique_transpile_args = parsed.unique

NoHardwareOverride == IsNone(args.basis_gates) /\ IsNone(args.coupling_map)

\* the target t without the calibrations that the custom gates of an
\* instruction schedule map have added to (a copy of) it
Uncalibrated(t) == IF IsNone(t) THEN t ELSE [t EXCEPT !.calibrated_from = "none"]

\* the target of the backend; a backend of version 1, or no backend, has none
BackendTarget ==
    IF BackendVersion(args.backend) >= 2 THEN args.backend.target ELSE None

\* C20: the target in the configuration of every circuit is the backend's
\* (with the calibrations of custom gates, if any) exactly when no target,
\* no basis_gates and no coupling_map argument is given; without a target
\* argument and with basis_gates or coupling_map given, it is None.
C20_BackendTargetFallback ==
    pc = "parsed" =>
        \A i \in 1..Len(unique_transpile_args) :
            LET t == ResolvedConfig(i)["target"]
            IN  /\ ~IsNone(BackendTarget) =>
                       (Uncalibrated(t) = BackendTarget
                            <=> (IsNone(args.target) /\ NoHardwareOverride))
                /\ (IsNone(args.target) /\ NoHardwareOverride) =>
                       Uncalibrated(t) = BackendTarget
                /\ (IsNone(args.target) /\ ~NoHardwareOverride) => IsNone(t)

\* a call with a version 2 backend and no target, basis_gates or coupling_map
\* has resolved the backend's target for its circuits
C20_Witness ==
    /\ pc = "parsed"
    /\ ~IsNone(BackendTarget)
    /\ IsNone(args.target)
    /\ NoHardwareOverride
    /\ Len(unique_transpile_args) >= 1
    /\ ResolvedConfig(1)["target"] = args.backend.target

\* the instruction schedule map the call resolves has custom gates
CustomGatesGiven ==
    LET inst_map == _parse_inst_map(TargetOverrides(args).inst_map, args.backend)
    IN  ~IsNone(inst_map) /\ ~IsList(inst_map) /\ inst_map.custom

\* the targets of the caller and of the backend carry no calibration
TargetsAsGiven ==
    /\ ~IsNone(args.target) => args.target.calibrated_from = "none"
    /\ ~IsNone(BackendTarget) => BackendTarget.calibrated_from = "none"

\* the target resolved with custom gates is a calibrated copy of the target of
\* the caller or of the backend
CalibratedCopy(t) ==
    /\ t.calibrated_from # "none"
    /\ t # args.target
    /\ t # BackendTarget
    /\ Uncalibrated(t) \in {args.target, BackendTarget}

\* C21: no step of the call changes the target given by the caller or exposed
\* by the backend; when custom gates of an instruction schedule map are merged
\* into a target, the configuration holds a calibrated copy and the original
\* carries no calibration.
C21_TargetOnlyRead ==
    /\ [](/\ TargetsAsGiven
          /\ (pc = "parsed" /\ CustomGatesGiven) =>
                 \A i \in 1..Len(unique_transpile_args) :
                     ~IsNone(ResolvedConfig(i)["target"]) =>
                         CalibratedCopy(ResolvedConfig(i)["target"]))
    /\ [][args'.target = args.target /\ args'.backend = args.backend]_vars

\* custom gates have been merged into a copy of the caller's target
C21_Witness ==
    /\ pc = "parsed"
    /\ CustomGatesGiven
    /\ ~IsNone(args.target)
    /\ args.target.calibrated_from = "none"
    /\ ResolvedConfig(1)["target"] = TargetUpdated(args.target, args.inst_map)

(***************************************************************************)
(* The boolean-logic circuit AND (quantum_and.py).  A call AND(n, flags)   *)
(* is held in the same frame as a call of transpile: `args` are its        *)
(* arguments together with the computational basis state the circuit is    *)
(* then run on, `circuits` is the instruction list it builds, `result` the *)
(* basis state after the circuit.  Qubits 1..n are the variable register,  *)
(* qubit n + 1 is the result register; mcx_mode is "noancilla", which      *)
(* needs no ancilla register.                                              *)
(***************************************************************************)
XGate(q) == [gate |-> "x", controls |-> <<>>, target |-> q]

MCXGate(control_qubits, q) == [gate |-> "mcx", controls |-> control_qubits, target |-> q]

\* the qubits of 1..n that are in `keep`, in increasing order
RECURSIVE QubitsWhere(_, _)
QubitsWhere(n, keep) ==
    IF n = 0 THEN <<>>
    ELSE IF n \in keep THEN Append(QubitsWhere(n - 1, keep), n)
    ELSE QubitsWhere(n - 1, keep)

\* line 76: flags or [1] * num_variable_qubits
flags_or_ones(num_variable_qubits, flags) ==
    IF Truthy(flags) THEN flags.items ELSE [i \in 1..num_variable_qubits |-> 1]

\* line 77: the qubits with a nonzero flag (zip stops at the shorter of the
\* register and the flags)
control_qubits(num_variable_qubits, flags) ==
    LET fl == flags_or_ones(num_variable_qubits, flags)
    IN  QubitsWhere(num_variable_qubits,
                    {q \in 1..Min2(num_variable_qubits, Len(fl)) : fl[q] # 0})

\* line 80: the qubits with a negative flag
flip_qubits(num_variable_qubits, flags) ==
    LET fl == flags_or_ones(num_variable_qubits, flags)
    IN  QubitsWhere(num_variable_qubits,
                    {q \in 1..Min2(num_variable_qubits, Len(fl)) : fl[q] < 0})

\* circuit.x(qubits): one X gate on each of the qubits
XGates(qubits) == [k \in 1..Len(qubits) |-> XGate(qubits[k])]

\* an AND whose negated qubits are not flipped back
and_without_second_flip(num_variable_qubits, flags) ==
    XGates(flip_qubits(num_variable_qubits, flags))
        \o <<MCXGate(control_qubits(num_variable_qubits, flags), num_variable_qubits + 1)>>

\* lines 90-94: X on the negated qubits, the multi-controlled X on the result
\* qubit, X on the negated qubits again
AND(num_variable_qubits, flags) ==
    XGates(flip_qubits(num_variable_qubits, flags))
        \o <<MCXGate(control_qubits(num_variable_qubits, flags), num_variable_qubits + 1)>>
        \o XGates(flip_qubits(num_variable_qubits, flags))

\* a gate on a computational basis state: X flips its qubit, a multi-controlled
\* X flips its target when every control is 1
ApplyGate(g, state) ==
    IF \A k \in 1..Len(g.controls) : state[g.controls[k]] = 1
    THEN [state EXCEPT ![g.target] = 1 - @]
    ELSE state

RECURSIVE RunGates(_, _)
RunGates(gates, state) ==
    IF gates = <<>> THEN state
    ELSE RunGates(Tail(gates), ApplyGate(Head(gates), state))

\* lines 66-97: the constructor; a multi-controlled X without any control is
\* left to the gate library, which either rejects it or builds it
ANDInit ==
    /\ pc = "call"
    /\ \/ /\ pc' = "built"
          /\ circuits' = AND(args.num_variable_qubits, args.flags)
          /\ UNCHANGED result
       \/ /\ control_qubits(args.num_variable_qubits, args.flags) = <<>>
          /\ pc' = "raised"
          /\ result' = Raise("CircuitError", "mcx")
          /\ UNCHANGED circuits
    /\ UNCHANGED <<args, env, shared_args, unique_transpile_args, cmap_conf, warned, runs,
                   pass_managers, output_circuits, shm>>

\* the circuit, run on the basis state of the call
ANDRun ==
    /\ pc = "built"
    /\ pc' = "returned"
    /\ result' = Returned(RunGates(circuits, args.state))
    /\ UNCHANGED <<args, env, circuits, shared_args, unique_transpile_args, cmap_conf, warned,
                   runs, pass_managers, output_circuits, shm>>

\* AND(n) and AND(n, flags) with n flags out of +1, 0, -1, on every basis state
ANDArgs ==
    UNION {[num_variable_qubits : {n},
            flags : {None} \cup {PyList(f) : f \in [1..n -> {-1, 0, 1}]},
            state : [1..(n + 1) -> {0, 1}]] : n \in 1..MaxVars}

SpecAND ==
    /\ \E a \in ANDArgs, e \in {d \in TwoEnvs : ~d.PARALLEL_DEFAULT} : Start(a, e)
    /\ [][ANDInit \/ ANDRun]_vars

\* the flag of variable qubit q
FlagOf(q) == flags_or_ones(args.num_variable_qubits, args.flags)[q]

\* every variable qubit with flag +1 is 1 and every one with flag -1 is 0
FlagsSatisfied ==
    \A q \in 1..args.num_variable_qubits :
        /\ FlagOf(q) = 1 => args.state[q] = 1
        /\ FlagOf(q) = -1 => args.state[q] = 0

ScheduleInst(time, op, index) == [time |-> time, op |-> op, index |-> index]

\* test_measure_with_custom_inst_map: a play on MeasureChannel(0) followed by
\* an acquire on AcquireChannel(0) into MemorySlot(0)
q0_sched == <<ScheduleInst(0, "Play", 0), ScheduleInst(0, "Acquire", 0)>>

\* an instruction schedule map that was never given "my_sched"
inst_map_without_my_sched == [kind |-> "InstructionScheduleMap", entries |-> {}]

\* inst_map = InstructionScheduleMap(); inst_map.add("my_sched", 0, q0_sched)
custom_inst_map ==
    [kind |-> "InstructionScheduleMap",
     entries |-> {[name |-> "my_sched", qubits |-> <<0>>, instructions |-> q0_sched]}]

\* setUp: the map of the two-qubit backend defines "measure" on both qubits
backend_inst_map ==
    [kind |-> "InstructionScheduleMap",
     entries |-> {[name |-> "measure", qubits |-> <<0, 1>>,
                   instructions |->
                       <<ScheduleInst(0, "Play", 0), ScheduleInst(0, "Play", 1),
                         ScheduleInst(0, "Acquire", 0), ScheduleInst(0, "Acquire", 1)>>]}]

\* the group of the measurement map that holds the qubit
MeasureGroup(meas_map, qubit) ==
    LET groups == {g \in 1..Len(meas_map.items) :
                      \E k \in 1..Len(meas_map.items[g]) : meas_map.items[g][k] = qubit}
    IN  IF groups = {} THEN <<>> ELSE meas_map.items[Min(groups)]

\* inst_map.get(name, qubits): the schedules added under the name for the qubits
SchedulesOf(inst_map, name, qubits) ==
    {e \in inst_map.entries : e.name = name /\ e.qubits = qubits}

\* macros.measure(qubits, backend, inst_map, meas_map, measure_name) for one
\* qubit: without a backend both maps are needed; the schedule of measure_name
\* for the qubit's group is looked up in the instruction schedule map, and its
\* instructions on the channels of the qubit are returned
measure(qubit, backend, inst_map, meas_map, measure_name) ==
    LET im == IF IsNone(inst_map) /\ ~IsNone(backend) THEN backend.inst_map ELSE inst_map
        mm == IF IsNone(meas_map) /\ ~IsNone(backend) THEN backend.meas_map ELSE meas_map
    IN  IF IsNone(im) \/ IsNone(mm) THEN Raise("PulseError", "measure")
        ELSE IF MeasureGroup(mm, qubit) = <<>> THEN Raise("KeyError", "measure")
        ELSE IF SchedulesOf(im, measure_name, MeasureGroup(mm, qubit)) = {}
        THEN Raise("PulseError", "_measure_v1")
        ELSE Returned(SelectSeq(
                 (CHOOSE e \in SchedulesOf(im, measure_name, MeasureGroup(mm, qubit)) :
                      TRUE).instructions,
                 LAMBDA inst : inst.index = qubit))

\* the calls of the tests, and calls like them; the backend is the two-qubit
\* version 1 backend of setUp
MeasureArgs ==
    [qubit : {0, 1},
     backend : {None, [kind |-> "Backend", inst_map |-> backend_inst_map,
                       meas_map |-> PyList(<<<<0, 1>>>>)]},
     inst_map : {None, custom_inst_map, backend_inst_map},
     meas_map : {None, PyList(<<<<0>>>>), PyList(<<<<0, 1>>>>)},
     measure_name : {"measure", "my_sched", "name"}]

MeasureCall ==
    /\ pc = "call"
    /\ result' = measure(args.qubit, args.backend, args.inst_map, args.meas_map,
                         args.measure_name)
    /\ pc' = IF IsRaise(result') THEN "raised" ELSE "returned"
    /\ UNCHANGED <<args, env, circuits, shared_args, unique_transpile_args, cmap_conf, warned,
                   runs, pass_managers, output_circuits, shm>>

SpecMeasure ==
    /\ \E a \in MeasureArgs, e \in {d \in TwoEnvs : ~d.PARALLEL_DEFAULT} : Start(a, e)
    /\ [][MeasureCall]_vars

\* the call gives no backend
NoBackendGiven == IsNone(args.backend)

\* the call is the one of test_measure_with_custom_inst_map, for any name
CustomMapCall ==
    /\ NoBackendGiven
    /\ args.qubit = 0
    /\ args.inst_map = custom_inst_map
    /\ args.meas_map = PyList(<<<<0>>>>)

CalibrationArgs ==
    {[DefaultArgs(PyList([i \in 1..n |->
          [QuantumCircuit(i, CircuitName(i), 1) EXCEPT
              !.calibrations = IF i = 1 THEN cals ELSE {}]])) EXCEPT
          !.backend = bk, !.instruction_durations = du, !.dt = dt] :
        n \in {1, MaxCircuits}, cals \in SUBSET {"cx", "x", "h"},
        bk \in {None, Backend(1, FALSE, 2, TRUE), Backend(2, FALSE, 2, TRUE)},
        du \in DurationArgs, dt \in {None, DtOf("arg")}}

\* a version 2 backend with or without default plugins, a version 1 backend
\* and no backend; methods given or not; the flag set or not
PluginArgs ==
    {[DefaultArgs(PyList(<<QuantumCircuit(1, CircuitName(1), 1)>>)) EXCEPT
          !.backend = bk, !.scheduling_method = sm, !.translation_method = tm,
          !.ignore_backend_supplied_default_methods = ig] :
        bk \in {None, Backend(1, FALSE, 2, TRUE)}
               \cup {[Backend(2, FALSE, 2, TRUE) EXCEPT
                         !.scheduling_stage_plugin = sp,
                         !.translation_stage_plugin = tp] :
                        sp \in {Absent, PyStr("backend_scheduling")},
                        tp \in {Absent, PyStr("backend_translation")}},
        sm \in {None, PyStr("alap")}, tm \in {None, PyStr("translator")},
        ig \in BOOLEAN}

\* an empty list, a schedule, lists of schedules, lists that mix schedules and
\* circuits; with arguments that a batch of circuits is rejected for
ShortcutArgs ==
    {[DefaultArgs(c) EXCEPT
          !.approximation_degree = ad, !.optimization_level = ol,
          !.scheduling_method = sm] :
        c \in {PyList(<<>>), Schedule(1, "sched1"), PyList(<<Schedule(1, "sched1")>>),
               PyList(<<Schedule(1, "sched1"), Schedule(2, "sched2")>>),
               PyList(<<Schedule(1, "sched1"), QuantumCircuit(2, CircuitName(2), 1)>>),
               PyList(<<QuantumCircuit(1, CircuitName(1), 1), Schedule(2, "sched2")>>)},
        ad \in {FloatOne, Float(3)}, ol \in {None, PyNum(7)},
        sm \in {None, PyStr("alap")}}

SpecCalls ==
    /\ \E a \in CalibrationArgs \cup PluginArgs \cup ShortcutArgs, e \in Envs : Start(a, e)
    /\ [][Next]_vars

\* the durations the call gives explicitly, when it gives any
SuppliedDurations ==
    IF Truthy(args.instruction_durations) THEN ExplicitDurationTable ELSE EmptyTable

\* the durations of the backend, which are the base when none are supplied
BaseDurations ==
    IF Truthy(args.instruction_durations) \/ IsNone(args.backend) THEN EmptyTable
    ELSE args.backend.instruction_durations.tab

\* the table is the base, overlaid with the durations of the calibrations
\* `cals`, overlaid with the supplied durations
Layered(tab, cals) ==
    /\ DOMAIN tab = DOMAIN BaseDurations \cup cals \cup DOMAIN SuppliedDurations
    /\ \A g \in DOMAIN tab :
           tab[g] = IF g \in DOMAIN SuppliedDurations THEN SuppliedDurations[g]
                    ELSE IF g \in cals THEN "calibration"
                    ELSE BaseDurations[g]

BackendDefault(stage) ==
    IF IsNone(args.backend) THEN None
    ELSE IF args.backend[stage] = Absent THEN None
    ELSE args.backend[stage]

\* the method resolved for a stage is the method asked for; only when none is
\* asked for and the flag is not set, it is the backend's default, if any
MethodResolved(resolved, asked, default) ==
    /\ ~IsNone(asked) => resolved = asked
    /\ (IsNone(asked) /\ args.ignore_backend_supplied_default_methods) => IsNone(resolved)
    /\ (IsNone(asked) /\ ~args.ignore_backend_supplied_default_methods) =>
           resolved = default

\* C25: the scheduling (translation) method of the configuration is the method
\* given whenever one is given; with no method given it is the backend's
\* default plugin if the backend exposes one and
\* ignore_backend_supplied_default_methods is False, and None otherwise.
C25_BackendDefaultPlugins ==
    pc = "parsed" =>
        \A i \in 1..Len(unique_transpile_args) :
            /\ MethodResolved(ResolvedConfig(i)["scheduling_method"],
                              args.scheduling_method,
                              BackendDefault("scheduling_stage_plugin"))
            /\ MethodResolved(ResolvedConfig(i)["translation_method"],
                              args.translation_method,
                              BackendDefault("translation_stage_plugin"))

\* a backend with both default plugins: the scheduling method given has won,
\* and the translation method, not given, is the backend's
C25_Witness ==
    /\ pc = "parsed"
    /\ ~args.ignore_backend_supplied_default_methods
    /\ BackendDefault("scheduling_stage_plugin") = PyStr("backend_scheduling")
    /\ args.scheduling_method = PyStr("alap")
    /\ IsNone(args.translation_method)
    /\ ResolvedConfig(1)["scheduling_method"] = PyStr("alap")
    /\ ResolvedConfig(1)["translation_method"] = PyStr("backend_translation")

\* the runs of the serial loop were configured with the shared arguments that
\* `parsed` holds, overlaid with the arguments of their own circuit, at the
\* level that `parsed` holds
SerialRunsFrom(parsed) ==
    \A r \in 1..Len(runs) :
        runs[r].where = "serial" =>
            /\ runs[r].pass_manager.config.kwargs =
                   Overlay(Without(parsed.shared, "optimization_level"),
                           parsed.unique[runs[r].index]["pass_manager_config"].d)
            /\ runs[r].pass_manager.level = parsed.shared["optimization_level"]

\* the shared dict, once filled, holds the resolved optimization level
LevelKept ==
    DOMAIN shared_args # {} =>
        /\ "optimization_level" \in DOMAIN shared_args
        /\ shared_args["optimization_level"] = ResolvedLevel

\* C26: in the serial loop, which updates the one shared dict for every
\* circuit in turn, the configuration built for circuit i is the shared
\* arguments as resolved overlaid with circuit i's own arguments, so that no
\* value of an earlier circuit is left in it; the shared dict holds the
\* resolved optimization_level after every call of _combine_args, and every
\* pass manager of the call is built at that level.
C26_SerialAliasing ==
    /\ runs # <<>> =>
           SerialRunsFrom(_parse_transpile_args(InputCircuits, args, ResolvedLevel))
    /\ LevelKept
    /\ \A k \in 1..Len(pass_managers) : pass_managers[k].level = ResolvedLevel

\* the serial loop has compiled two circuits that have their own seeds, and the
\* shared dict holds the seed of the second
C26_Witness ==
    /\ pc = "returned"
    /\ Len(runs) = 2
    /\ runs[2].where = "serial"
    /\ IsList(args.seed_transpiler)
    /\ runs[1].pass_manager.config.kwargs["seed_transpiler"] = PyNum(11)
    /\ runs[2].pass_manager.config.kwargs["seed_transpiler"] = PyNum(12)
    /\ shared_args["seed_transpiler"] = PyNum(12)

\* the input is one schedule, or a list of schedules only
OnlySchedules ==
    /\ Len(InputCircuits) > 0
    /\ \A i \in 1..Len(InputCircuits) : InputCircuits[i].kind = "Schedule"

\* the input holds a schedule and a circuit
SchedulesAndCircuits ==
    /\ \E i \in 1..Len(InputCircuits) : InputCircuits[i].kind = "Schedule"
    /\ \E i \in 1..Len(InputCircuits) : InputCircuits[i].kind = "QuantumCircuit"

\* nothing has been resolved, checked, shared or compiled
NothingDone ==
    /\ DOMAIN shared_args = {}
    /\ unique_transpile_args = <<>>
    /\ cmap_conf = <<>>
    /\ shm = NoShm
    /\ pass_managers = <<>>
    /\ runs = <<>>
    /\ DOMAIN output_circuits = {}

\* C27: a call whose input is schedules only returns its input as it was given
\* (the list, or the one schedule), with the one warning that schedules are not
\* transpiled, and without resolving arguments, checking widths or running a
\* pass manager; a call whose input mixes schedules and circuits neither
\* returns its input nor emits that warning.
C27_SchedulesShortcut ==
    pc # "call" =>
        /\ OnlySchedules =>
               /\ pc = "returned"
               /\ result = Returned(args.circuits)
               /\ warned = {Warning("UserWarning", "schedules")}
               /\ NothingDone
        /\ SchedulesAndCircuits =>
               /\ result # Returned(args.circuits)
               /\ Warning("UserWarning", "schedules") \notin warned

\* a call with one schedule, not in a list, has returned that schedule
C27_Witness ==
    /\ pc = "returned"
    /\ args.circuits = Schedule(1, "sched1")
    /\ result = Returned(Schedule(1, "sched1"))
    /\ warned = {Warning("UserWarning", "schedules")}

\* C28: a call with an empty list of circuits returns an empty list at once,
\* whatever its other arguments and its environment: it raises nothing, warns
\* of nothing, creates no shared memory and builds or runs no pass manager.
C28_EmptyBatch ==
    (Len(InputCircuits) = 0 /\ pc # "call") =>
        /\ pc = "returned"
        /\ result = Returned(PyList(<<>>))
        /\ warned = {}
        /\ NothingDone

\* an empty list has been returned to a call whose approximation degree and
\* optimization level are out of range, which asks for scheduling without
\* durations, in a process that dispatches in parallel
C28_Witness ==
    /\ pc = "returned"
    /\ args.circuits = PyList(<<>>)
    /\ args.approximation_degree = Float(3)
    /\ args.optimization_level = PyNum(7)
    /\ args.scheduling_method = PyStr("alap")
    /\ env.PARALLEL_DEFAULT
    /\ env.QISKIT_IN_PARALLEL = "FALSE"
    /\ result = Returned(PyList(<<>>))

====
